---- MODULE Spec2Model ----
(***************************************************************************)
(* Model of agent-taylor's session detection and coverage-window engine    *)
(* (src/agent_taylor/ai_hours.py) and of the coverage filter of the        *)
(* compare command (src/agent_taylor/cli.py).                              *)
(*                                                                         *)
(* Timestamps are integers (seconds).  A project path is the sequence of   *)
(* its components.  A date string "YYYY-MM-DD" is the triple <<Y, M, D>>:  *)
(* comparing two date strings is comparing the triples lexicographically,  *)
(* parsing one (strptime) gives its proleptic Gregorian ordinal.           *)
(* An Optional value is <<>> (None) or <<v>>.                              *)
(***************************************************************************)
EXTENDS Integers, Sequences, FiniteSets, TLC

VARIABLES
    \* detect_sessions
    interactions,       \* the argument: list of Interaction
    project_filter,     \* the argument: None or a project name
    ds_pc,              \* position in detect_sessions
    by_project,         \* dict project path -> list of Interaction
    project_order,      \* the dict's keys in insertion order
    proj_idx,           \* index of the project being scanned
    proj_interactions,  \* the sorted list of the project being scanned
    inter_idx,          \* index of the next interaction of the for loop
    session_start,      \* Optional timestamp
    session_end,        \* Optional timestamp
    session_count,
    last_assistant_ts,  \* Optional timestamp
    cur_folded,         \* history: the events folded into the open session
    sessions,           \* the list of Session built so far / returned
    \* coverage windows
    windows1,           \* first window list (the argument of merge)
    windows2,           \* second window list (intersect only)
    cov_op,             \* the function applied last
    cov_date,           \* the date argument of is_date_covered
    cov_result,         \* the window list merge / intersect returned
    cov_covered,        \* what is_date_covered returned
    \* _cmd_compare
    raw_coverage,       \* detect_coverage_windows(): [claude, codex] lists
    claude_coverage,
    codex_coverage,
    coverage_windows,   \* the effective coverage
    cmp_pc,             \* position in _cmd_compare
    cmp_count,          \* sessions of the loop taken so far
    session_date,       \* Optional: the date of the session processed last
    session_metrics,    \* the list of SessionMetrics (date, configuration)
    skipped_no_repo,
    skipped_no_coverage,
    \* get_configuration / classify_session
    cfg_beads_date,     \* the argument beads_date: None or a date string
    cfg_beadhub,        \* the second argument, as the caller passes it
    cfg_check_date,     \* the argument check_date / session_start_date
    cfg_op,             \* the function applied
    cfg_result,         \* Optional: what it returned or raised
    \* aggregate_by_configuration / aggregate_by_date_and_configuration
    agg_session_metrics, \* the argument session_metrics
    agg_op,             \* the function applied
    agg_raised,         \* Optional: the exception it raised
    agg_by_config,      \* the dict aggregate_by_configuration returned
    agg_rows,           \* the list aggregate_by_date_and_configuration returned
    \* Session.duration_seconds / Session.estimated_seconds
    est_session,        \* Optional: the Session whose properties are read
    est_op,
    est_duration_seconds,   \* Optional: what duration_seconds gave
    est_estimated_seconds,  \* Optional: what estimated_seconds gave
    \* detect_sessions called twice on one list
    ref_sessions,       \* Optional: what the call without a filter returned
    \* detect_coverage_windows
    dcw_mode,           \* "bundle" (log_bundle given) or "default"
    dcw_pc,             \* position in detect_coverage_windows
    dcw_claude_dirs,    \* number of Claude directories not scanned yet
    dcw_codex_dirs,     \* number of Codex directories not scanned yet
    dcw_log,            \* Optional: the source and records of the directory scanned last
    dcw_result,         \* the dict result: [claude, codex] window lists
    \* get_commits_in_window, as _cmd_compare calls it
    gcw_repo_exists,    \* repo.exists()
    gcw_run,            \* what subprocess.run does when it is reached
    gcw_op,
    gcw_result,         \* Optional: what the call returned or raised
    gcw_metrics,        \* Optional: the commits and delta of the SessionMetrics
    \* collect_interactions
    col_pc,             \* position in collect_interactions
    col_lines_left,     \* number of lines the session files still hold
    col_cwd,            \* cwd of _parse_codex_sessions: Optional path
    col_file,           \* Optional: history, the source of the open file and its lines read so far
    col_interactions,   \* the list interactions built so far / returned
    col_raised,         \* Optional: the exception that ended the call
    \* sitting segmentation
    sit_events,         \* the events of all projects, in time order
    sit_idx,            \* index of the next event of the scan
    sit_current,        \* Optional: the sitting that is open
    sit_sittings,       \* the sittings closed so far / returned
    \* resolve_cwd_to_repo
    rcr_config,         \* the PathConfig: remap and ignore
    rcr_cache,          \* the dict cache: a function from paths to Optional paths
    rcr_call,           \* Optional: the last call, its number, its cwd and what it returned
    rcr_detected        \* history: the paths given to detect_git_root, in order

ds_vars == <<interactions, project_filter, ds_pc, by_project, project_order,
             proj_idx, proj_interactions, inter_idx, session_start,
             session_end, session_count, last_assistant_ts, cur_folded,
             sessions>>

cov_vars == <<windows1, windows2, cov_op, cov_date, cov_result, cov_covered>>

cmp_vars == <<raw_coverage, claude_coverage, codex_coverage, coverage_windows,
              cmp_pc, cmp_count, session_date, session_metrics,
              skipped_no_repo, skipped_no_coverage>>

cfg_vars == <<cfg_beads_date, cfg_beadhub, cfg_check_date, cfg_op, cfg_result>>

agg_vars == <<agg_session_metrics, agg_op, agg_raised, agg_by_config, agg_rows>>

est_vars == <<est_session, est_op, est_duration_seconds, est_estimated_seconds>>

ref_vars == <<ref_sessions>>

dcw_vars == <<dcw_mode, dcw_pc, dcw_claude_dirs, dcw_codex_dirs, dcw_log, dcw_result>>

gcw_vars == <<gcw_repo_exists, gcw_run, gcw_op, gcw_result, gcw_metrics>>

col_vars == <<col_pc, col_lines_left, col_cwd, col_file,
              col_interactions, col_raised>>

sit_vars == <<sit_events, sit_idx, sit_current, sit_sittings>>

rcr_vars == <<rcr_config, rcr_cache, rcr_call, rcr_detected>>

\* The variables of the functions modelled on their own
ext_vars == <<cfg_vars, agg_vars, est_vars, ref_vars, dcw_vars,
              gcw_vars, col_vars, sit_vars, rcr_vars>>

\* What a call of one of them leaves alone
not_cfg_vars == <<ds_vars, cov_vars, cmp_vars, agg_vars, est_vars, ref_vars, dcw_vars,
                  gcw_vars, col_vars, sit_vars, rcr_vars>>

not_agg_vars == <<ds_vars, cov_vars, cmp_vars, cfg_vars, est_vars, ref_vars, dcw_vars,
                  gcw_vars, col_vars, sit_vars, rcr_vars>>

not_est_vars == <<ds_vars, cov_vars, cmp_vars, cfg_vars, agg_vars, ref_vars, dcw_vars,
                  gcw_vars, col_vars, sit_vars, rcr_vars>>

not_dcw_vars == <<ds_vars, cov_vars, cmp_vars, cfg_vars, agg_vars, est_vars, ref_vars,
                  gcw_vars, col_vars, sit_vars, rcr_vars>>

\* The variables of the session, coverage, classifier and aggregator models
old_vars == <<ds_vars, cov_vars, cmp_vars, cfg_vars, agg_vars, est_vars,
              ref_vars, dcw_vars>>

vars == <<ds_vars, cov_vars, cmp_vars, ext_vars>>

-----------------------------------------------------------------------------
(* Bounds and input domains *)

MaxEvents == 4

MaxMergeWindows == 3

MaxWindowsA == 2

MaxWindowsB == 1

MaxMachines == 1

MaxCmpSessions == 1

MaxAggSessions == 2

MaxFilterEvents == 3

MaxBundleMachines == 2

MaxLogRecords == 2

MaxGitLines == 3

MaxLines == 4

MaxSittingEvents == 3

MaxResolveCalls == 3

MaxUnsortedEvents == 3

Timestamps == {0, 1, 300, 600}

MessageTypes == {"user", "assistant"}

ProjectPaths == {<<"home", "x">>, <<"work", "y">>}

-----------------------------------------------------------------------------
(* Program constants and small helpers *)

SESSION_GAP_SECONDS == 5 * 60

THINKING_PREFIX_SECONDS == 3 * 60

None == <<>>

Some(v) == <<v>>

Max(a, b) == IF a >= b THEN a ELSE b

\* sorted(seq, key=...) / list.sort(key=...): a stable sort; keys[k] is the
\* key of seq[k], an integer.  Insertion after every element whose key is
\* <= keeps equal keys in their original order.
StableSort(seq, keys) ==
    LET Insert(s, x) ==
            LET n == Cardinality({i \in 1..Len(s) : s[i][1] <= x[1]})
            IN  SubSeq(s, 1, n) \o <<x>> \o SubSeq(s, n + 1, Len(s))
        ins[k \in 0..Len(seq)] ==
            IF k = 0 THEN <<>> ELSE Insert(ins[k - 1], <<keys[k], seq[k]>>)
    IN  [k \in 1..Len(seq) |-> ins[Len(seq)][k][2]]

\* Interaction(timestamp, message_type, project)
Interaction == [timestamp : Timestamps, message_type : MessageTypes,
                project : ProjectPaths]

\* _project_name: the last element of the path, "unknown" for the empty path
ProjectName(full_path) ==
    IF full_path = <<>> THEN "unknown" ELSE full_path[Len(full_path)]

\* key=lambda x: x.timestamp
TimestampKeys(seq) == [k \in 1..Len(seq) |-> seq[k].timestamp]

\* The mutant has one key for all: the list stays as it is.
StartTsKeys_Constant(seq) == [k \in 1..Len(seq) |-> 0]

\* key=lambda s: s.start_ts
StartTsKeys(seq) == [k \in 1..Len(seq) |-> seq[k].start_ts]

\* The mutant does not clamp a negative difference.
DurationSeconds_Signed(s) == s.end_ts - s.start_ts

\* Session.duration_seconds
DurationSeconds(s) == Max(0, s.end_ts - s.start_ts)

\* Session.estimated_seconds
EstimatedSeconds(s) == DurationSeconds(s) + THINKING_PREFIX_SECONDS

-----------------------------------------------------------------------------
(* detect_sessions *)

\* The projects of the filtered input in order of first occurrence
\* (the insertion order of the by_project dict).
Passes_AnyComponent(i) ==
    \/ project_filter = None
    \/ project_filter[1] = ""
    \/ \E k \in 1..Len(i.project) : i.project[k] = project_filter[1]

Passes(i) ==
    \/ project_filter = None
    \/ project_filter[1] = ""
    \/ ProjectName(i.project) = project_filter[1]

KeysInOrder(seq) ==
    LET keys[k \in 0..Len(seq)] ==
            IF k = 0 THEN <<>>
            ELSE IF Passes(seq[k])
                    /\ \A j \in 1..Len(keys[k - 1]) :
                          keys[k - 1][j] # seq[k].project
                 THEN Append(keys[k - 1], seq[k].project)
                 ELSE keys[k - 1]
    IN  keys[Len(seq)]

\* The mutant groups by project name.
GroupOf_ByName(seq, p) ==
    SelectSeq(seq, LAMBDA i : Passes(i) /\ ProjectName(i.project) = ProjectName(p))

GroupOf(seq, p) == SelectSeq(seq, LAMBDA i : Passes(i) /\ i.project = p)

\* for i in interactions: ... by_project.setdefault(i.project, []).append(i)
GroupByProject ==
    /\ ds_pc = "group"
    /\ project_order' = KeysInOrder(interactions)
    /\ by_project' = [p \in {i.project : i \in {interactions[k] : k \in 1..Len(interactions)}}
                        |-> GroupOf(interactions, p)]
    /\ sessions' = <<>>
    /\ proj_idx' = 1
    /\ ds_pc' = "project"
    /\ UNCHANGED <<interactions, project_filter, proj_interactions, inter_idx,
                   session_start, session_end, session_count,
                   last_assistant_ts, cur_folded>>
    /\ UNCHANGED <<cov_vars, cmp_vars, ext_vars>>

\* for project_full, proj_interactions in by_project.items(): sort, reset
BeginProject ==
    /\ ds_pc = "project"
    /\ proj_idx <= Len(project_order)
    /\ proj_interactions' = StableSort(by_project[project_order[proj_idx]],
                                       TimestampKeys(by_project[project_order[proj_idx]]))
    /\ session_start' = None
    /\ session_end' = None
    /\ session_count' = 0
    /\ last_assistant_ts' = None
    /\ cur_folded' = <<>>
    /\ inter_idx' = 1
    /\ ds_pc' = "scan"
    /\ UNCHANGED <<interactions, project_filter, by_project, project_order,
                   proj_idx, sessions>>
    /\ UNCHANGED <<cov_vars, cmp_vars, ext_vars>>

\* The mutant drops a session of a single event.
Flushed_MoreThanOne ==
    IF session_start # None /\ session_end # None /\ session_count > 1
    THEN <<[project      |-> ProjectName(project_order[proj_idx]),
            project_full |-> project_order[proj_idx],
            start_ts     |-> session_start[1],
            end_ts       |-> session_end[1],
            interactions |-> session_count,
            folded       |-> cur_folded]>>
    ELSE <<>>

\* The Session flush_session appends, if it appends one.
Flushed ==
    IF session_start # None /\ session_end # None /\ session_count > 0
    THEN <<[project      |-> ProjectName(project_order[proj_idx]),
            project_full |-> project_order[proj_idx],
            start_ts     |-> session_start[1],
            end_ts       |-> session_end[1],
            interactions |-> session_count,
            folded       |-> cur_folded]>>
    ELSE <<>>

\* Variants of the split test: a strict comparison, and no role test.
StartsNewSession_Strict(inter) ==
    /\ inter.message_type = "user"
    /\ last_assistant_ts # None
    /\ inter.timestamp - last_assistant_ts[1] > SESSION_GAP_SECONDS

StartsNewSession_AnyRole(inter) ==
    /\ last_assistant_ts # None
    /\ inter.timestamp - last_assistant_ts[1] >= SESSION_GAP_SECONDS

\* if inter.message_type == "user" and last_assistant_ts is not None:
\*     gap = inter.timestamp - last_assistant_ts
\*     if gap >= SESSION_GAP_SECONDS: flush_session()
StartsNewSession(inter) ==
    /\ inter.message_type = "user"
    /\ last_assistant_ts # None
    /\ inter.timestamp - last_assistant_ts[1] >= SESSION_GAP_SECONDS

\* Variant: the start is overwritten by every event.
InitialStart_Always(start, inter) == Some(inter.timestamp)

\* if session_start is None: session_start = inter.timestamp
InitialStart(start, inter) ==
    IF start = None THEN Some(inter.timestamp) ELSE start

\* session_end = inter.timestamp
ExtendEnd(end, inter) == Some(inter.timestamp)

\* One iteration of "for inter in proj_interactions"
ProcessInteraction ==
    /\ ds_pc = "scan"
    /\ inter_idx <= Len(proj_interactions)
    /\ LET inter == proj_interactions[inter_idx]
           split == StartsNewSession(inter)
           start == IF split THEN None ELSE session_start
           end   == IF split THEN None ELSE session_end
           count == IF split THEN 0 ELSE session_count
       IN  /\ sessions' = IF split THEN sessions \o Flushed ELSE sessions
           /\ session_start' = InitialStart(start, inter)
           /\ session_end' = ExtendEnd(end, inter)
           /\ session_count' = count + 1
           /\ cur_folded' = IF split THEN <<inter>> ELSE Append(cur_folded, inter)
           /\ last_assistant_ts' =
                 IF inter.message_type = "assistant"
                 THEN Some(inter.timestamp) ELSE last_assistant_ts
    /\ inter_idx' = inter_idx + 1
    /\ UNCHANGED <<interactions, project_filter, ds_pc, by_project,
                   project_order, proj_idx, proj_interactions>>
    /\ UNCHANGED <<cov_vars, cmp_vars, ext_vars>>

\* The flush_session() after the for loop of one project
EndProject ==
    /\ ds_pc = "scan"
    /\ inter_idx > Len(proj_interactions)
    /\ sessions' = sessions \o Flushed
    /\ session_start' = None
    /\ session_end' = None
    /\ session_count' = 0
    /\ cur_folded' = <<>>
    /\ proj_idx' = proj_idx + 1
    /\ ds_pc' = "project"
    /\ UNCHANGED <<interactions, project_filter, by_project, project_order,
                   proj_interactions, inter_idx, last_assistant_ts>>
    /\ UNCHANGED <<cov_vars, cmp_vars, ext_vars>>

\* sessions.sort(key=lambda s: s.start_ts); return sessions
SortSessions ==
    /\ ds_pc = "project"
    /\ proj_idx > Len(project_order)
    /\ sessions' = StableSort(sessions, StartTsKeys(sessions))
    /\ ds_pc' = "done"
    /\ UNCHANGED <<interactions, project_filter, by_project, project_order,
                   proj_idx, proj_interactions, inter_idx, session_start,
                   session_end, session_count, last_assistant_ts, cur_folded>>
    /\ UNCHANGED <<cov_vars, cmp_vars, ext_vars>>

\* The lists of at most n elements of S
SeqsUpTo(S, n) == UNION {[1..k -> S] : k \in 0..n}

\* The _cmd_compare variables while it is not running
CmpIdle ==
    /\ raw_coverage = [claude |-> <<>>, codex |-> <<>>]
    /\ claude_coverage = <<>>
    /\ codex_coverage = <<>>
    /\ coverage_windows = <<>>
    /\ cmp_pc = "idle"
    /\ cmp_count = 0
    /\ session_date = None
    /\ session_metrics = <<>>
    /\ skipped_no_repo = 0
    /\ skipped_no_coverage = 0

\* The coverage variables while detect_sessions runs
CovIdle ==
    /\ windows1 = <<>>
    /\ windows2 = <<>>
    /\ cov_op = "none"
    /\ cov_date = None
    /\ cov_result = <<>>
    /\ cov_covered = FALSE

\* The classifier variables while it is not called
CfgIdle ==
    /\ cfg_beads_date = None
    /\ cfg_beadhub = None
    /\ cfg_check_date = None
    /\ cfg_op = "idle"
    /\ cfg_result = None

\* The aggregator variables while no aggregator is called
AggIdle ==
    /\ agg_session_metrics = <<>>
    /\ agg_op = "idle"
    /\ agg_raised = None
    /\ agg_by_config = <<>>
    /\ agg_rows = <<>>

\* The variables of the Session properties while they are not read
EstIdle ==
    /\ est_session = None
    /\ est_op = "idle"
    /\ est_duration_seconds = None
    /\ est_estimated_seconds = None

\* detect_sessions is not called a second time
RefIdle ==
    /\ ref_sessions = None

\* The detect_coverage_windows variables while it is not called
DcwIdle ==
    /\ dcw_mode = "default"
    /\ dcw_pc = "idle"
    /\ dcw_claude_dirs = 0
    /\ dcw_codex_dirs = 0
    /\ dcw_log = None
    /\ dcw_result = [claude |-> <<>>, codex |-> <<>>]

\* The get_commits_in_window variables while it is not called
GcwIdle ==
    /\ gcw_repo_exists = FALSE
    /\ gcw_run = None
    /\ gcw_op = "idle"
    /\ gcw_result = None
    /\ gcw_metrics = None

\* The collect_interactions variables while it is not called
ColIdle ==
    /\ col_pc = "idle"
    /\ col_lines_left = 0
    /\ col_cwd = None
    /\ col_file = None
    /\ col_interactions = <<>>
    /\ col_raised = None

\* The sitting variables while no scan runs
SitIdle ==
    /\ sit_events = <<>>
    /\ sit_idx = 0
    /\ sit_current = None
    /\ sit_sittings = <<>>

\* The resolve_cwd_to_repo variables while it is not called
RcrIdle ==
    /\ rcr_config = None
    /\ rcr_cache = <<>>
    /\ rcr_call = None
    /\ rcr_detected = <<>>

\* The variables of the functions modelled on their own, while the
\* session and coverage machinery runs
ExtIdle ==
    /\ CfgIdle
    /\ AggIdle
    /\ EstIdle
    /\ RefIdle
    /\ DcwIdle
    /\ GcwIdle
    /\ ColIdle
    /\ SitIdle
    /\ RcrIdle

\* detect_sessions is called on the list collect_interactions returns,
\* which is sorted by timestamp.
InitSessions ==
    /\ \E n \in 0..MaxEvents :
          \E ts \in {t \in [1..n -> Timestamps] :
                        \A k \in 1..(n - 1) : t[k] <= t[k + 1]},
             who \in [1..n -> MessageTypes \X ProjectPaths] :
             interactions = [k \in 1..n |->
                               [timestamp |-> ts[k],
                                message_type |-> who[k][1],
                                project |-> who[k][2]]]
    /\ project_filter = None
    /\ ds_pc = "group"
    /\ by_project = <<>>
    /\ project_order = <<>>
    /\ proj_idx = 0
    /\ proj_interactions = <<>>
    /\ inter_idx = 0
    /\ session_start = None
    /\ session_end = None
    /\ session_count = 0
    /\ last_assistant_ts = None
    /\ cur_folded = <<>>
    /\ sessions = <<>>
    /\ CovIdle
    /\ CmpIdle
    /\ ExtIdle

NextSessions ==
    \/ GroupByProject
    \/ BeginProject
    \/ ProcessInteraction
    \/ EndProject
    \/ SortSessions

SpecSessions == InitSessions /\ [][NextSessions]_vars

-----------------------------------------------------------------------------
(* Dates: "YYYY-MM-DD" strings and datetime values *)

\* A date string compares with another as its digits "YYYYMMDD", read as a
\* number, do: the fields are zero-padded and the dashes are in the same
\* places.
StrKey(d) == d[1] * 10000 + d[2] * 100 + d[3]

\* str <= str and str < str
StrLe(a, b) == StrKey(a) <= StrKey(b)

StrLt(a, b) == StrKey(a) < StrKey(b)

\* max(a, b) and min(a, b) of two strings
StrMax(a, b) == IF StrLt(a, b) THEN b ELSE a

StrMin(a, b) == IF StrLt(b, a) THEN b ELSE a

IsLeap(y) == y % 4 = 0 /\ (y % 100 # 0 \/ y % 400 = 0)

DaysInMonth(y, m) ==
    IF m = 2 THEN (IF IsLeap(y) THEN 29 ELSE 28)
    ELSE IF m \in {4, 6, 9, 11} THEN 30 ELSE 31

\* The days of a year before its month m, for common and for leap years
DaysBeforeMonthTable ==
    [leap \in BOOLEAN |->
        [m \in 1..12 |->
            LET y == IF leap THEN 2024 ELSE 2025
                acc[k \in 0..(m - 1)] ==
                    IF k = 0 THEN 0 ELSE acc[k - 1] + DaysInMonth(y, k)
            IN  acc[m - 1]]]

DaysBeforeMonth(y, m) == DaysBeforeMonthTable[IsLeap(y)][m]

DaysBeforeYear(y) ==
    (y - 1) * 365 + ((y - 1) \div 4) - ((y - 1) \div 100) + ((y - 1) \div 400)

\* datetime.strptime(s, "%Y-%m-%d"), as the day's ordinal: datetimes at
\* midnight compare, and move by timedelta(days=n), as their ordinals do.
Ordinal(d) == DaysBeforeYear(d[1]) + DaysBeforeMonth(d[1], d[2]) + d[3]

\* The dates of the model: four consecutive days across a month's end
Dates == {<<2025, 1, 30>>, <<2025, 1, 31>>, <<2025, 2, 1>>, <<2025, 2, 2>>}

\* The well-formed windows (start <= end) over Dates; a window is the pair
\* <<start, end>>
Windows == {w \in Dates \X Dates : Ordinal(w[1]) <= Ordinal(w[2])}

-----------------------------------------------------------------------------
(* merge_coverage_windows, intersect_coverage_windows, is_date_covered *)

\* Variant of the sort key: every window has the same key, so the list keeps
\* its input order
WindowStartKeys_InputOrder(windows) == [k \in 1..Len(windows) |-> 0]

\* key=lambda w: w[0]
WindowStartKeys(windows) == [k \in 1..Len(windows) |-> StrKey(windows[k][1])]

\* Variants of the adjacency test: overlap only, and one missing day allowed
Adjacent_OverlapOnly(start, current_end) ==
    Ordinal(start) <= Ordinal(current_end)

Adjacent_TwoDays(start, current_end) ==
    Ordinal(start) <= Ordinal(current_end) + 2

\* if start_dt <= current_end_dt + timedelta(days=1):
Adjacent(start, current_end) ==
    Ordinal(start) <= Ordinal(current_end) + 1

\* merge_coverage_windows(windows)
MergeCoverageWindows(windows) ==
    IF windows = <<>> THEN <<>>
    ELSE
      LET sorted_windows == StableSort(windows, WindowStartKeys(windows))
          \* the loop's state after the k-th sorted window
          st[k \in 1..Len(sorted_windows)] ==
              IF k = 1
              THEN [merged |-> <<>>,
                    current_start |-> sorted_windows[1][1],
                    current_end |-> sorted_windows[1][2]]
              ELSE LET prev == st[k - 1]
                       start == sorted_windows[k][1]
                       end == sorted_windows[k][2]
                   IN  IF Adjacent(start, prev.current_end)
                       THEN [prev EXCEPT !.current_end =
                                IF StrLt(prev.current_end, end)
                                THEN end ELSE prev.current_end]
                       ELSE [merged |-> Append(prev.merged,
                                <<prev.current_start, prev.current_end>>),
                             current_start |-> start,
                             current_end |-> end]
          last == st[Len(sorted_windows)]
      IN  Append(last.merged, <<last.current_start, last.current_end>>)

\* Variant of the overlap test: a one-day overlap is dropped
ValidOverlap_Strict(overlap_start, overlap_end) ==
    StrLt(overlap_start, overlap_end)

\* if overlap_start <= overlap_end:
ValidOverlap(overlap_start, overlap_end) == StrLe(overlap_start, overlap_end)

\* The overlaps collected by the two nested loops, in loop order
Intersections(w1, w2) ==
    LET n == Len(w1) * Len(w2)
        pair(k) == <<w1[((k - 1) \div Len(w2)) + 1], w2[((k - 1) % Len(w2)) + 1]>>
        acc[k \in 0..n] ==
            IF k = 0 THEN <<>>
            ELSE LET overlap_start == StrMax(pair(k)[1][1], pair(k)[2][1])
                     overlap_end == StrMin(pair(k)[1][2], pair(k)[2][2])
                 IN  IF ValidOverlap(overlap_start, overlap_end)
                     THEN Append(acc[k - 1], <<overlap_start, overlap_end>>)
                     ELSE acc[k - 1]
    IN  acc[n]

\* intersect_coverage_windows(windows1, windows2)
IntersectCoverageWindows(w1, w2) ==
    IF w1 = <<>> \/ w2 = <<>> THEN <<>>
    ELSE MergeCoverageWindows(Intersections(w1, w2))

\* Variant of the containment test: the end bound is exclusive
InWindow_EndExclusive(date, w) == StrLe(w[1], date) /\ StrLt(date, w[2])

\* if start <= date <= end:
InWindow(date, w) == StrLe(w[1], date) /\ StrLe(date, w[2])

\* is_date_covered(date, windows): the scan returns at the first hit
RECURSIVE IsDateCovered(_, _)
IsDateCovered(date, windows) ==
    IF windows = <<>> THEN FALSE
    ELSE IF InWindow(date, Head(windows)) THEN TRUE
         ELSE IsDateCovered(date, Tail(windows))

\* The detect_sessions variables while the coverage functions run
SessionsIdle ==
    /\ interactions = <<>>
    /\ project_filter = None
    /\ ds_pc = "idle"
    /\ by_project = <<>>
    /\ project_order = <<>>
    /\ proj_idx = 0
    /\ proj_interactions = <<>>
    /\ inter_idx = 0
    /\ session_start = None
    /\ session_end = None
    /\ session_count = 0
    /\ last_assistant_ts = None
    /\ cur_folded = <<>>
    /\ sessions = <<>>

\* A call of merge_coverage_windows(windows1)
CallMerge ==
    /\ cov_op = "none"
    /\ cov_op' = "merge"
    /\ cov_result' = MergeCoverageWindows(windows1)
    /\ UNCHANGED <<windows1, windows2, cov_date, cov_covered>>
    /\ UNCHANGED <<ds_vars, cmp_vars, ext_vars>>

\* A call of intersect_coverage_windows(windows1, windows2)
CallIntersect ==
    /\ cov_op = "none"
    /\ cov_op' = "intersect"
    /\ cov_result' = IntersectCoverageWindows(windows1, windows2)
    /\ UNCHANGED <<windows1, windows2, cov_date, cov_covered>>
    /\ UNCHANGED <<ds_vars, cmp_vars, ext_vars>>

\* A call of is_date_covered(date, windows1)
CallIsDateCovered ==
    /\ cov_op = "none"
    /\ \E date \in Dates :
          /\ cov_date' = Some(date)
          /\ cov_covered' = IsDateCovered(date, windows1)
    /\ cov_op' = "covered"
    /\ UNCHANGED <<windows1, windows2, cov_result>>
    /\ UNCHANGED <<ds_vars, cmp_vars, ext_vars>>

\* The inputs: one list of up to MaxMergeWindows windows, or a pair of lists
\* of up to MaxWindowsA and MaxWindowsB windows, in any order.
InitCoverage ==
    /\ \/ /\ windows1 \in SeqsUpTo(Windows, MaxMergeWindows)
          /\ windows2 = <<>>
       \/ /\ windows1 \in SeqsUpTo(Windows, MaxWindowsA)
          /\ windows2 \in SeqsUpTo(Windows, MaxWindowsB)
    /\ cov_op = "none"
    /\ cov_date = None
    /\ cov_result = <<>>
    /\ cov_covered = FALSE
    /\ SessionsIdle
    /\ CmpIdle
    /\ ExtIdle

NextCoverage ==
    \/ CallMerge
    \/ CallIntersect
    \/ CallIsDateCovered

SpecCoverage == InitCoverage /\ [][NextCoverage]_vars

\* merge_coverage_windows and is_date_covered on one list of up to
\* MaxMergeWindows windows, in any order
InitMerge ==
    /\ windows1 \in SeqsUpTo(Windows, MaxMergeWindows)
    /\ windows2 = <<>>
    /\ cov_op = "none"
    /\ cov_date = None
    /\ cov_result = <<>>
    /\ cov_covered = FALSE
    /\ SessionsIdle
    /\ CmpIdle
    /\ ExtIdle

NextMerge ==
    \/ CallMerge
    \/ CallIsDateCovered

SpecMerge == InitMerge /\ [][NextMerge]_vars

-----------------------------------------------------------------------------
(* get_configuration (config_detection.py) and classify_session (compare.py) *)

\* Python values of the types get_configuration's second parameter receives:
\* a date string from the callers that follow its signature, a bool from
\* classify_session.
PyStr(d) == <<"str", d>>

PyBool(b) == <<"bool", b>>

\* What an order comparison of a str with a bool raises
TypeError == "TypeError"

\* The mutant tests the second date before the adoption date.
GetConfiguration_HubFirst(beads_date, beadhub_date, check_date) ==
    IF beadhub_date /= None /\ beadhub_date[1] = "str"
       /\ StrLe(beadhub_date[2], check_date)
    THEN "beads+beadhub"
    ELSE IF beads_date = None \/ StrLt(check_date, beads_date[1])
    THEN "none"
    ELSE "beads"

\* The mutant takes the second date as reached only after it.
GetConfiguration_HubStrict(beads_date, beadhub_date, check_date) ==
    IF beads_date = None \/ StrLt(check_date, beads_date[1])
    THEN "none"
    ELSE IF beadhub_date = None
    THEN "beads"
    ELSE IF beadhub_date[1] /= "str"
    THEN TypeError
    ELSE IF StrLt(beadhub_date[2], check_date)
    THEN "beads+beadhub"
    ELSE "beads"

\* get_configuration: the value returned, or the exception raised.  The
\* second test evaluates check_date >= beadhub_date whenever beadhub_date
\* is not None, which raises TypeError when beadhub_date is not a str.
GetConfiguration(beads_date, beadhub_date, check_date) ==
    IF beads_date = None \/ StrLt(check_date, beads_date[1])
    THEN "none"
    ELSE IF beadhub_date = None
    THEN "beads"
    ELSE IF beadhub_date[1] /= "str"
    THEN TypeError
    ELSE IF StrLe(beadhub_date[2], check_date)
    THEN "beads+beadhub"
    ELSE "beads"

\* classify_session passes its bool is_beadhub as get_configuration's
\* second argument.
ClassifySession(session_start_date, beads_date, is_beadhub) ==
    GetConfiguration(beads_date, PyBool(is_beadhub), session_start_date)

\* The values callers pass as get_configuration's beadhub_date
BeadhubDates == {None} \cup {PyStr(d) : d \in Dates}

\* A call of get_configuration(cfg_beads_date, cfg_beadhub, cfg_check_date)
CallGetConfiguration ==
    /\ cfg_op = "none"
    /\ cfg_beadhub \in BeadhubDates
    /\ cfg_op' = "get_configuration"
    /\ cfg_result' = Some(GetConfiguration(cfg_beads_date, cfg_beadhub,
                                           cfg_check_date))
    /\ UNCHANGED <<cfg_beads_date, cfg_beadhub, cfg_check_date>>
    /\ UNCHANGED not_cfg_vars

\* A call of classify_session(cfg_check_date, cfg_beads_date, is_beadhub)
CallClassifySession ==
    /\ cfg_op = "none"
    /\ cfg_beadhub \in {PyBool(b) : b \in BOOLEAN}
    /\ cfg_op' = "classify_session"
    /\ cfg_result' = Some(ClassifySession(cfg_check_date, cfg_beads_date,
                                          cfg_beadhub[2]))
    /\ UNCHANGED <<cfg_beads_date, cfg_beadhub, cfg_check_date>>
    /\ UNCHANGED not_cfg_vars

\* The arguments: an adoption date or None, a second date, None or the
\* repository flag, and the date to classify.
InitClassify ==
    /\ cfg_beads_date \in {None} \cup {Some(d) : d \in Dates}
    /\ cfg_beadhub \in BeadhubDates \cup {PyBool(b) : b \in BOOLEAN}
    /\ cfg_check_date \in Dates
    /\ cfg_op = "none"
    /\ cfg_result = None
    /\ SessionsIdle
    /\ CovIdle
    /\ CmpIdle
    /\ AggIdle
    /\ EstIdle
    /\ RefIdle
    /\ DcwIdle
    /\ GcwIdle
    /\ ColIdle
    /\ SitIdle
    /\ RcrIdle

NextClassify ==
    \/ CallGetConfiguration
    \/ CallClassifySession

SpecClassify == InitClassify /\ [][NextClassify]_vars

-----------------------------------------------------------------------------
(* _cmd_compare: the effective coverage and the coverage filter *)

SecondsPerDay == 24 * 60 * 60

\* The days of January and February 2025
Calendar ==
    {d \in {2025} \X (1..2) \X (1..31) : d[3] <= DaysInMonth(d[1], d[2])}

\* datetime.fromtimestamp(ts).strftime("%Y-%m-%d"), the local time zone
\* taken to be UTC: whole days since 1970-01-01, as a date string.
DateOfOrdinal ==
    [o \in {Ordinal(d) : d \in Calendar} |->
        CHOOSE d \in Calendar : Ordinal(d) = o]

DateOfTimestamp(ts) ==
    DateOfOrdinal[Ordinal(<<1970, 1, 1>>) + (ts \div SecondsPerDay)]

\* The start timestamps of the sessions of the model: the first and the
\* last second of each day of Dates
SessionStartTimes ==
    {(Ordinal(d) - Ordinal(<<1970, 1, 1>>)) * SecondsPerDay + s :
        d \in Dates, s \in {0, SecondsPerDay - 1}}

\* Variant of the choice of coverage: with both sources, the first one's
EffectiveCoverage_FirstSource(claude, codex) ==
    IF claude # <<>> THEN claude
    ELSE IF codex # <<>> THEN codex
    ELSE <<>>

\* if claude_coverage and codex_coverage: intersect ... elif ... else []
EffectiveCoverage(claude, codex) ==
    IF claude # <<>> /\ codex # <<>>
    THEN IntersectCoverageWindows(claude, codex)
    ELSE IF claude # <<>> THEN claude
    ELSE IF codex # <<>> THEN codex
    ELSE <<>>

\* if coverage_windows and not is_date_covered(session_date, coverage_windows)
SkipNoCoverage(date, windows) ==
    windows # <<>> /\ ~IsDateCovered(date, windows)

\* "Compute effective coverage windows": merge per source, then combine
ComputeCoverage ==
    /\ cmp_pc = "coverage"
    /\ claude_coverage' = MergeCoverageWindows(raw_coverage.claude)
    /\ codex_coverage' = MergeCoverageWindows(raw_coverage.codex)
    /\ coverage_windows' = EffectiveCoverage(claude_coverage', codex_coverage')
    /\ cmp_pc' = "sessions"
    /\ UNCHANGED <<raw_coverage, cmp_count, session_date, session_metrics,
                   skipped_no_repo, skipped_no_coverage>>
    /\ UNCHANGED <<ds_vars, cov_vars, ext_vars>>

\* What classify_session returns or raises for a session of that date, over
\* the RepoConfig values (beads_date, is_beadhub) a repository can have
Classifications(date) ==
    {ClassifySession(date, beads_date, is_beadhub) :
        beads_date \in {None} \cup {Some(d) : d \in Dates},
        is_beadhub \in BOOLEAN}

\* One iteration of "for session in sessions".  The session's start_ts is
\* an input; so are the outcomes of the steps that do not read the
\* coverage: repo is "ignored" (the project is ignored), "no_repo" (no
\* repository or configuration found) or "ok", later says whether the
\* session passes the --since and --beadhub-since filters, and
\* configuration is what classify_session gives with the repository's
\* RepoConfig.  An exception that classify_session raises ends the command.
ProcessSession ==
    /\ cmp_pc = "sessions"
    /\ cmp_count < MaxCmpSessions
    /\ cmp_count' = cmp_count + 1
    /\ \E start_ts \in SessionStartTimes :
          LET date == DateOfTimestamp(start_ts)
              skip == SkipNoCoverage(date, coverage_windows)
          IN  \E repo \in {"ignored", "no_repo", "ok"} :
              \E later \in IF repo = "ok" THEN BOOLEAN ELSE {TRUE} :
              \E configuration \in IF repo = "ok" /\ ~skip /\ later
                                   THEN Classifications(date)
                                   ELSE {"none"} :
              LET classified == repo = "ok" /\ ~skip /\ later
              IN  /\ skipped_no_repo' =
                        IF repo = "no_repo" THEN skipped_no_repo + 1
                        ELSE skipped_no_repo
                  /\ session_date' =
                        IF repo = "ok" THEN Some(date) ELSE session_date
                  /\ skipped_no_coverage' =
                        IF repo = "ok" /\ skip THEN skipped_no_coverage + 1
                        ELSE skipped_no_coverage
                  /\ session_metrics' =
                        IF classified /\ configuration /= TypeError
                        THEN Append(session_metrics,
                                    [date |-> date,
                                     configuration |-> configuration])
                        ELSE session_metrics
                  /\ cmp_pc' = IF classified /\ configuration = TypeError
                               THEN "raised"
                               ELSE cmp_pc
    /\ UNCHANGED <<raw_coverage, claude_coverage, codex_coverage,
                   coverage_windows>>
    /\ UNCHANGED <<ds_vars, cov_vars, ext_vars>>

\* detect_coverage_windows gives one window per source and machine that
\* has events, from the date of its earliest to the date of its latest one.
InitCompare ==
    /\ raw_coverage \in [claude : SeqsUpTo(Windows, MaxMachines),
                         codex : SeqsUpTo(Windows, MaxMachines)]
    /\ claude_coverage = <<>>
    /\ codex_coverage = <<>>
    /\ coverage_windows = <<>>
    /\ cmp_pc = "coverage"
    /\ cmp_count = 0
    /\ session_date = None
    /\ session_metrics = <<>>
    /\ skipped_no_repo = 0
    /\ skipped_no_coverage = 0
    /\ SessionsIdle
    /\ CovIdle
    /\ ExtIdle

NextCompare ==
    \/ ComputeCoverage
    \/ ProcessSession

SpecCompare == InitCompare /\ [][NextCompare]_vars

-----------------------------------------------------------------------------
(* aggregate_by_configuration and aggregate_by_date_and_configuration       *)
(* (compare.py).  A float is the exact rational it stands for: a whole      *)
(* number for hours, and for a rate the fraction [num, den] in lowest terms. *)
(* The parameter session_metrics is called metrics here.                    *)

RECURSIVE GCD(_, _)
GCD(a, b) == IF b = 0 THEN a ELSE GCD(b, a % b)

\* The float 0.0 of a rate that was never computed
ZeroRate == [num |-> 0, den |-> 1]

\* What a / b raises when b is zero
ZeroDivisionError == [num |-> 0, den |-> 0]

\* Python's a / b, for a >= 0 and b >= 0
TrueDiv(a, b) ==
    IF b = 0 THEN ZeroDivisionError
    ELSE [num |-> a \div GCD(a, b), den |-> b \div GCD(a, b)]

\* The keys of the result dict, in insertion order, and config_order
ConfigOrder == <<"none", "beads", "beads+beadhub">>

\* AggregatedMetrics(sessions=0, hours=0.0, ...)
NewAggregatedMetrics ==
    [sessions |-> 0, hours |-> 0, commits |-> 0, delta |-> 0,
     delta_per_hour |-> ZeroRate, commits_per_hour |-> ZeroRate]

\* DailyMetrics(date=..., configuration=..., sessions=0, hours=0.0, ...)
NewDailyMetrics(date, configuration) ==
    [date |-> date, configuration |-> configuration,
     sessions |-> 0, hours |-> 0, commits |-> 0, delta |-> 0,
     delta_per_hour |-> ZeroRate, commits_per_hour |-> ZeroRate]

\* The four += of the aggregation loops
AddSession(m, session) ==
    [m EXCEPT !.sessions = @ + 1,
              !.hours = @ + session.hours,
              !.commits = @ + session.commits,
              !.delta = @ + session.delta]

\* The mutant divides whatever the hours are.
ComputeRates_Unguarded(m) ==
    [m EXCEPT !.delta_per_hour = TrueDiv(m.delta, m.hours),
              !.commits_per_hour = TrueDiv(m.commits, m.hours)]

\* "Compute rates": the two divisions, under the test hours > 0
ComputeRates(m) ==
    IF m.hours > 0
    THEN [m EXCEPT !.delta_per_hour = TrueDiv(m.delta, m.hours),
                   !.commits_per_hour = TrueDiv(m.commits, m.hours)]
    ELSE m

\* The loop "for session in session_metrics" of aggregate_by_configuration
RECURSIVE AccumulateByConfiguration(_, _)
AccumulateByConfiguration(result, metrics) ==
    IF metrics = <<>> THEN result
    ELSE LET session == Head(metrics)
             config == session.configuration
         IN  AccumulateByConfiguration(
                 IF config \notin DOMAIN result THEN result
                 ELSE [result EXCEPT ![config] = AddSession(@, session)],
                 Tail(metrics))

\* The mutant creates a key when it meets its first session.
AggregateByConfiguration_NoInit(metrics) ==
    LET present == {metrics[k].configuration :
                       k \in 1..Len(metrics)}
                   \cap {ConfigOrder[i] : i \in 1..Len(ConfigOrder)}
        sums == AccumulateByConfiguration(
                    [config \in present |-> NewAggregatedMetrics],
                    metrics)
    IN  [config \in DOMAIN sums |-> ComputeRates(sums[config])]

\* aggregate_by_configuration: the dict it returns
AggregateByConfiguration(metrics) ==
    LET sums == AccumulateByConfiguration(
                    [config \in {ConfigOrder[i] : i \in 1..Len(ConfigOrder)}
                        |-> NewAggregatedMetrics],
                    metrics)
    IN  [config \in DOMAIN sums |-> ComputeRates(sums[config])]

\* Variant of the grouping loop: the key is the date alone, so a row takes
\* the sessions of every configuration of its date.
RECURSIVE AccumulateByDateAndConfiguration_ByDate(_, _)
AccumulateByDateAndConfiguration_ByDate(groups, metrics) ==
    IF metrics = <<>> THEN groups
    ELSE LET session == Head(metrics)
             IsKey(g) == g.date = session.date
             with == IF \E k \in 1..Len(groups) : IsKey(groups[k])
                     THEN groups
                     ELSE Append(groups,
                                 NewDailyMetrics(session.date,
                                                 session.configuration))
             at == CHOOSE k \in 1..Len(with) : IsKey(with[k])
         IN  AccumulateByDateAndConfiguration_ByDate(
                 [with EXCEPT ![at] = AddSession(@, session)],
                 Tail(metrics))

\* The loop "for session in session_metrics" of
\* aggregate_by_date_and_configuration; groups is the dict's values in
\* insertion order.
RECURSIVE AccumulateByDateAndConfiguration(_, _)
AccumulateByDateAndConfiguration(groups, metrics) ==
    IF metrics = <<>> THEN groups
    ELSE LET session == Head(metrics)
             IsKey(g) == /\ g.date = session.date
                         /\ g.configuration = session.configuration
             with == IF \E k \in 1..Len(groups) : IsKey(groups[k])
                     THEN groups
                     ELSE Append(groups,
                                 NewDailyMetrics(session.date,
                                                 session.configuration))
             at == CHOOSE k \in 1..Len(with) : IsKey(with[k])
         IN  AccumulateByDateAndConfiguration(
                 [with EXCEPT ![at] = AddSession(@, session)],
                 Tail(metrics))

\* config_order.index(configuration), or 99
ConfigIdx(configuration) ==
    IF \E i \in 1..Len(ConfigOrder) : ConfigOrder[i] = configuration
    THEN (CHOOSE i \in 1..Len(ConfigOrder) : ConfigOrder[i] = configuration) - 1
    ELSE 99

\* sort_key: the pair (date, config_idx) compares as this number, config_idx
\* being below 100.
SortKeys(rows) ==
    [k \in 1..Len(rows) |->
        StrKey(rows[k].date) * 100 + ConfigIdx(rows[k].configuration)]

\* The mutant returns the groups in the order the dict holds them.
AggregateByDateAndConfiguration_Unsorted(metrics) ==
    IF metrics = <<>> THEN <<>>
    ELSE LET groups == AccumulateByDateAndConfiguration(<<>>, metrics)
         IN  [k \in 1..Len(groups) |-> ComputeRates(groups[k])]

\* aggregate_by_date_and_configuration: the list it returns
AggregateByDateAndConfiguration(metrics) ==
    IF metrics = <<>> THEN <<>>
    ELSE LET groups == AccumulateByDateAndConfiguration(<<>>, metrics)
             rated == [k \in 1..Len(groups) |-> ComputeRates(groups[k])]
         IN  StableSort(rated, SortKeys(rated))

\* Whether a division of "Compute rates" raised
Raises(m) ==
    \/ m.delta_per_hour = ZeroDivisionError
    \/ m.commits_per_hour = ZeroDivisionError

\* A call of aggregate_by_configuration(agg_session_metrics)
CallAggregateByConfiguration ==
    /\ agg_op = "none"
    /\ agg_op' = "aggregate_by_configuration"
    /\ LET result == AggregateByConfiguration(agg_session_metrics)
           raised == \E config \in DOMAIN result : Raises(result[config])
       IN  /\ agg_raised' = IF raised THEN Some("ZeroDivisionError") ELSE None
           /\ agg_by_config' = IF raised THEN <<>> ELSE result
    /\ UNCHANGED <<agg_session_metrics, agg_rows>>
    /\ UNCHANGED not_agg_vars

\* A call of aggregate_by_date_and_configuration(agg_session_metrics)
CallAggregateByDateAndConfiguration ==
    /\ agg_op = "none"
    /\ agg_op' = "aggregate_by_date_and_configuration"
    /\ LET result == AggregateByDateAndConfiguration(agg_session_metrics)
           raised == \E k \in 1..Len(result) : Raises(result[k])
       IN  /\ agg_raised' = IF raised THEN Some("ZeroDivisionError") ELSE None
           /\ agg_rows' = IF raised THEN <<>> ELSE result
    /\ UNCHANGED <<agg_session_metrics, agg_by_config>>
    /\ UNCHANGED not_agg_vars

\* The configurations of the input: the three the command produces and one
\* it does not
InputConfigurations == {"none", "beads", "beads+beadhub", "other"}

\* The dates of the input: the last day of a month and the first of the next
InputDates == {<<2025, 1, 31>>, <<2025, 2, 1>>}

\* (hours, commits, delta) of an input session
InputWork == {<<0, 1, 3>>, <<1, 1, 3>>, <<2, 3, 5>>}

SessionMetricsInputs ==
    {[configuration |-> c, hours |-> w[1], commits |-> w[2], delta |-> w[3],
      date |-> d] : c \in InputConfigurations, w \in InputWork,
                    d \in InputDates}

InitAggregate ==
    /\ agg_session_metrics \in SeqsUpTo(SessionMetricsInputs, MaxAggSessions)
    /\ agg_op = "none"
    /\ agg_raised = None
    /\ agg_by_config = <<>>
    /\ agg_rows = <<>>
    /\ SessionsIdle
    /\ CovIdle
    /\ CmpIdle
    /\ CfgIdle
    /\ EstIdle
    /\ RefIdle
    /\ DcwIdle
    /\ GcwIdle
    /\ ColIdle
    /\ SitIdle
    /\ RcrIdle

NextAggregate ==
    \/ CallAggregateByConfiguration
    \/ CallAggregateByDateAndConfiguration

SpecAggregate == InitAggregate /\ [][NextAggregate]_vars

-----------------------------------------------------------------------------
(* Session.duration_seconds and Session.estimated_seconds, read on a        *)
(* Session built directly: the dataclass takes any start_ts and end_ts.     *)

\* Reading estimated_seconds (which reads duration_seconds) of est_session
ReadEstimatedSeconds ==
    /\ est_op = "none"
    /\ est_op' = "estimated_seconds"
    /\ est_duration_seconds' = Some(DurationSeconds(est_session[1]))
    /\ est_estimated_seconds' = Some(EstimatedSeconds(est_session[1]))
    /\ UNCHANGED est_session
    /\ UNCHANGED not_est_vars

\* Session(project, project_full, start_ts, end_ts, interactions)
InitEstimate ==
    /\ \E project_full \in ProjectPaths, start_ts \in Timestamps,
          end_ts \in Timestamps, count \in 1..MaxEvents :
          est_session = Some([project |-> ProjectName(project_full),
                              project_full |-> project_full,
                              start_ts |-> start_ts,
                              end_ts |-> end_ts,
                              interactions |-> count])
    /\ est_op = "none"
    /\ est_duration_seconds = None
    /\ est_estimated_seconds = None
    /\ SessionsIdle
    /\ CovIdle
    /\ CmpIdle
    /\ CfgIdle
    /\ AggIdle
    /\ RefIdle
    /\ DcwIdle
    /\ GcwIdle
    /\ ColIdle
    /\ SitIdle
    /\ RcrIdle

NextEstimate ==
    \/ ReadEstimatedSeconds

SpecEstimate == InitEstimate /\ [][NextEstimate]_vars

-----------------------------------------------------------------------------
(* detect_sessions with a project_filter, after a call without one on the   *)
(* same list                                                                 *)

\* Project paths: two directories of the same name, and a third
FilterPaths == {<<"home", "x">>, <<"work", "x">>, <<"work", "y">>}

\* Timestamps: one instant, and one a session gap later
FilterTimestamps == {0, SESSION_GAP_SECONDS}

\* Filters: a project name, a directory that is not the last component of
\* a path, and the empty string
ProjectFilters == {"x", "work", ""}

\* detect_sessions(interactions, project_filter=f), called when the call
\* without a filter has returned; ref_sessions keeps what that call
\* returned.
CallWithFilter ==
    /\ ds_pc = "done"
    /\ ref_sessions = None
    /\ ref_sessions' = Some(sessions)
    /\ \E f \in ProjectFilters : project_filter' = Some(f)
    /\ ds_pc' = "group"
    /\ by_project' = <<>>
    /\ project_order' = <<>>
    /\ proj_idx' = 0
    /\ proj_interactions' = <<>>
    /\ inter_idx' = 0
    /\ session_start' = None
    /\ session_end' = None
    /\ session_count' = 0
    /\ last_assistant_ts' = None
    /\ cur_folded' = <<>>
    /\ sessions' = <<>>
    /\ UNCHANGED interactions
    /\ UNCHANGED <<cov_vars, cmp_vars, cfg_vars, agg_vars, est_vars,
                   dcw_vars, gcw_vars, col_vars, sit_vars, rcr_vars>>

\* A list sorted by timestamp, as collect_interactions returns it
InitFilter ==
    /\ \E n \in 0..MaxFilterEvents :
          \E ts \in {t \in [1..n -> FilterTimestamps] :
                        \A k \in 1..(n - 1) : t[k] <= t[k + 1]},
             who \in [1..n -> MessageTypes \X FilterPaths] :
             interactions = [k \in 1..n |->
                               [timestamp |-> ts[k],
                                message_type |-> who[k][1],
                                project |-> who[k][2]]]
    /\ project_filter = None
    /\ ds_pc = "group"
    /\ by_project = <<>>
    /\ project_order = <<>>
    /\ proj_idx = 0
    /\ proj_interactions = <<>>
    /\ inter_idx = 0
    /\ session_start = None
    /\ session_end = None
    /\ session_count = 0
    /\ last_assistant_ts = None
    /\ cur_folded = <<>>
    /\ sessions = <<>>
    /\ CovIdle
    /\ CmpIdle
    /\ ExtIdle

NextFilter ==
    \/ GroupByProject
    \/ BeginProject
    \/ ProcessInteraction
    \/ EndProject
    \/ SortSessions
    \/ CallWithFilter

SpecFilter == InitFilter /\ [][NextFilter]_vars

-----------------------------------------------------------------------------
(* detect_coverage_windows and the log readers (ai_hours.py).  A directory  *)
(* holds one session file, the sequence of its JSON records; a record's     *)
(* timestamp is None or the seconds its raw value parses to.                *)

\* The first second of a day
DayStart(d) == (Ordinal(d) - Ordinal(<<1970, 1, 1>>)) * SecondsPerDay

\* The timestamps of the records: the last second of a day and the first
\* second of the next
ScanTimestamps ==
    {DayStart(<<2025, 1, 31>>) + SecondsPerDay - 1, DayStart(<<2025, 2, 1>>)}

\* The path _parse_claude_sessions infers from the project directory name
InferredCwd == <<"home", "x">>

\* Records of a Claude session file: user and assistant messages, a
\* message without timestamp, one without cwd, and a summary line
ClaudeRecords ==
    {[type |-> t, timestamp |-> Some(ts), cwd |-> <<"work", "y">>] :
        t \in {"user", "assistant"}, ts \in ScanTimestamps}
    \cup {[type |-> "user", timestamp |-> None, cwd |-> <<"work", "y">>],
          [type |-> "user", timestamp |-> Some(DayStart(<<2025, 2, 1>>)),
           cwd |-> <<>>],
          [type |-> "summary", timestamp |-> Some(DayStart(<<2025, 2, 1>>)),
           cwd |-> <<>>]}

\* Records of a Codex session file: session_meta lines with a cwd and
\* without one, messages of a user and of a developer role, a message
\* without timestamp, a function call, a user_message event and a
\* reasoning item
CodexRecords ==
    {[type |-> "session_meta", payload_type |-> "", role |-> "",
      cwd |-> c, timestamp |-> None] :
        c \in {<<"work", "y">>, <<"home", "x">>, <<>>}}
    \cup {[type |-> "response_item", payload_type |-> "message", role |-> r,
           cwd |-> <<>>, timestamp |-> Some(ts)] :
             r \in {"user", "developer"}, ts \in ScanTimestamps}
    \cup {[type |-> "response_item", payload_type |-> "message",
           role |-> "user", cwd |-> <<>>, timestamp |-> None],
          [type |-> "response_item", payload_type |-> "function_call",
           role |-> "", cwd |-> <<>>,
           timestamp |-> Some(DayStart(<<2025, 2, 1>>))],
          [type |-> "event_msg", payload_type |-> "user_message",
           role |-> "", cwd |-> <<>>,
           timestamp |-> Some(DayStart(<<2025, 2, 1>>))],
          [type |-> "response_item", payload_type |-> "reasoning",
           role |-> "", cwd |-> <<>>,
           timestamp |-> Some(DayStart(<<2025, 2, 1>>))]}

ClaudeLogs == SeqsUpTo(ClaudeRecords, MaxLogRecords)

CodexLogs == SeqsUpTo(CodexRecords, MaxLogRecords)

\* _parse_claude_sessions: the Interactions of a directory
ParseClaudeSessions(log) ==
    LET kept == SelectSeq(log, LAMBDA msg :
                    /\ msg.type \in {"user", "assistant"}
                    /\ msg.timestamp /= None)
    IN  [k \in 1..Len(kept) |->
            [timestamp |-> kept[k].timestamp[1],
             message_type |-> kept[k].type,
             project |-> IF kept[k].cwd = <<>> THEN InferredCwd
                         ELSE kept[k].cwd]]

\* normalized_type of _parse_codex_sessions: Optional "user" / "assistant"
NormalizedType(msg) ==
    IF msg.type = "response_item"
    THEN IF msg.payload_type = "message"
         THEN IF msg.role \in {"user", "assistant"} THEN Some(msg.role)
              ELSE None
         ELSE IF msg.payload_type = "function_call" THEN Some("assistant")
         ELSE None
    ELSE IF msg.type = "event_msg" /\ msg.payload_type = "user_message"
    THEN Some("user")
    ELSE None

\* _parse_codex_sessions, from one line of a file on; cwd is the Optional
\* cwd of the session_meta lines read so far.
RECURSIVE ParseCodexFrom(_, _)
ParseCodexFrom(log, cwd) ==
    IF log = <<>> THEN <<>>
    ELSE LET msg == Head(log)
         IN  IF msg.type = "session_meta"
             THEN ParseCodexFrom(Tail(log), Some(msg.cwd))
             ELSE IF \/ NormalizedType(msg) = None
                     \/ msg.timestamp = None
                     \/ cwd = None
                     \/ cwd[1] = <<>>
             THEN ParseCodexFrom(Tail(log), cwd)
             ELSE <<[timestamp |-> msg.timestamp[1],
                     message_type |-> NormalizedType(msg)[1],
                     project |-> cwd[1]]>>
                  \o ParseCodexFrom(Tail(log), cwd)

\* _parse_codex_sessions: the Interactions of a directory
ParseCodexSessions(log) == ParseCodexFrom(log, None)

\* The timestamps _earliest_claude_timestamp and _latest_claude_timestamp
\* compare
ClaudeScanned(log) ==
    {log[k].timestamp[1] :
        k \in {j \in 1..Len(log) : /\ log[j].type \in {"user", "assistant"}
                                   /\ log[j].timestamp /= None}}

\* The timestamps _earliest_codex_timestamp and _latest_codex_timestamp
\* compare: "only count actual message types, not session_meta"
CodexScanned(log) ==
    {log[k].timestamp[1] :
        k \in {j \in 1..Len(log) :
                 /\ \/ /\ log[j].type = "response_item"
                       /\ log[j].payload_type \in {"message", "function_call"}
                    \/ /\ log[j].type = "event_msg"
                       /\ log[j].payload_type = "user_message"
                 /\ log[j].timestamp /= None}}

\* earliest / latest: Optional, the least / greatest of the timestamps
Earliest(timestamps) ==
    IF timestamps = {} THEN None
    ELSE Some(CHOOSE t \in timestamps : \A u \in timestamps : t <= u)

Latest(timestamps) ==
    IF timestamps = {} THEN None
    ELSE Some(CHOOSE t \in timestamps : \A u \in timestamps : u <= t)

\* if earliest is not None and latest is not None: append (start, end)
WindowOf(earliest, latest) ==
    IF earliest /= None /\ latest /= None
    THEN <<<<DateOfTimestamp(earliest[1]), DateOfTimestamp(latest[1])>>>>
    ELSE <<>>

\* One Claude directory: an iteration of "for cdir in claude_dirs", or the
\* single claude_dir of the default mode
ScanClaudeDir ==
    /\ dcw_pc = "scan"
    /\ dcw_claude_dirs > 0
    /\ \E log \in ClaudeLogs :
          /\ dcw_log' = Some([source |-> "claude", records |-> log])
          /\ dcw_result' =
                [dcw_result EXCEPT !.claude =
                    @ \o WindowOf(Earliest(ClaudeScanned(log)),
                                  Latest(ClaudeScanned(log)))]
    /\ dcw_claude_dirs' = dcw_claude_dirs - 1
    /\ UNCHANGED <<dcw_mode, dcw_pc, dcw_codex_dirs>>
    /\ UNCHANGED not_dcw_vars

\* One Codex directory: an iteration of "for xdir in codex_dirs", or the
\* single codex_dir of the default mode
ScanCodexDir ==
    /\ dcw_pc = "scan"
    /\ dcw_claude_dirs = 0
    /\ dcw_codex_dirs > 0
    /\ \E log \in CodexLogs :
          /\ dcw_log' = Some([source |-> "codex", records |-> log])
          /\ dcw_result' =
                [dcw_result EXCEPT !.codex =
                    @ \o WindowOf(Earliest(CodexScanned(log)),
                                  Latest(CodexScanned(log)))]
    /\ dcw_codex_dirs' = dcw_codex_dirs - 1
    /\ UNCHANGED <<dcw_mode, dcw_pc, dcw_claude_dirs>>
    /\ UNCHANGED not_dcw_vars

\* return result
ReturnCoverageWindows ==
    /\ dcw_pc = "scan"
    /\ dcw_claude_dirs = 0
    /\ dcw_codex_dirs = 0
    /\ dcw_pc' = "done"
    /\ UNCHANGED <<dcw_mode, dcw_claude_dirs, dcw_codex_dirs, dcw_log,
                   dcw_result>>
    /\ UNCHANGED not_dcw_vars

\* Bundle mode: the claude and codex subdirectories of the machine
\* directories, some of which may have only one of the two; default mode:
\* one directory of each.
InitCoverageWindows ==
    /\ \/ /\ dcw_mode = "bundle"
          /\ dcw_claude_dirs \in 0..MaxBundleMachines
          /\ dcw_codex_dirs \in 0..MaxBundleMachines
       \/ /\ dcw_mode = "default"
          /\ dcw_claude_dirs = 1
          /\ dcw_codex_dirs = 1
    /\ dcw_pc = "scan"
    /\ dcw_log = None
    /\ dcw_result = [claude |-> <<>>, codex |-> <<>>]
    /\ SessionsIdle
    /\ CovIdle
    /\ CmpIdle
    /\ CfgIdle
    /\ AggIdle
    /\ EstIdle
    /\ RefIdle
    /\ GcwIdle
    /\ ColIdle
    /\ SitIdle
    /\ RcrIdle

NextCoverageWindows ==
    \/ ScanClaudeDir
    \/ ScanCodexDir
    \/ ReturnCoverageWindows

SpecCoverageWindows == InitCoverageWindows /\ [][NextCoverageWindows]_vars

-----------------------------------------------------------------------------
(* get_commits_in_window (compare.py) and the use _cmd_compare makes of its *)
(* result.  The output of git log is the sequence of its lines.  A call     *)
(* returns [raised |-> None, value |-> the list] or raises: [raised |->     *)
(* Some(exception), value |-> <<>>].                                        *)

Return(v) == [raised |-> None, value |-> v]

Raise(e) == [raised |-> Some(e), value |-> <<>>]

\* Lines of "git log --format=%H|%ct --numstat": a commit header, the
\* numstat line of a text file and of a binary file, and a blank line
GitLines ==
    {[kind |-> "header", sha |-> "abc", timestamp |-> 100, added |-> None,
      deleted |-> None],
     [kind |-> "numstat", sha |-> "", timestamp |-> 0, added |-> Some(1),
      deleted |-> Some(2)],
     [kind |-> "numstat", sha |-> "", timestamp |-> 0, added |-> None,
      deleted |-> None],
     [kind |-> "blank", sha |-> "", timestamp |-> 0, added |-> None,
      deleted |-> None]}

\* What subprocess.run(cmd, cwd=repo, capture_output=True, text=True,
\* check=False) does: it raises OSError (git or the directory cannot be
\* used) or a SubprocessError, it raises UnicodeDecodeError (a ValueError)
\* when the output cannot be decoded as text, or it completes with a
\* return code and the output
SubprocessRuns ==
    {[raises |-> Some(e), returncode |-> 0, stdout |-> <<>>] :
        e \in {"OSError", "SubprocessError", "UnicodeDecodeError"}}
    \cup {[raises |-> None, returncode |-> rc, stdout |-> out] :
            rc \in {0, 1, 128}, out \in SeqsUpTo(GitLines, MaxGitLines)}

\* _parse_git_log_numstat, from one line on: current_commit is Optional
RECURSIVE ParseNumstatFrom(_, _, _)
ParseNumstatFrom(lines, current_commit, commits) ==
    IF lines = <<>>
    THEN IF current_commit /= None THEN Append(commits, current_commit[1])
         ELSE commits
    ELSE LET line == Head(lines)
         IN  IF line.kind = "blank"
             THEN ParseNumstatFrom(Tail(lines), current_commit, commits)
             ELSE IF line.kind = "header"
             THEN ParseNumstatFrom(
                      Tail(lines),
                      Some([sha |-> line.sha, timestamp |-> line.timestamp,
                            added |-> 0, deleted |-> 0, delta |-> 0]),
                      IF current_commit /= None
                      THEN Append(commits, current_commit[1]) ELSE commits)
             ELSE IF current_commit /= None
             THEN LET added == IF line.added = None THEN 0 ELSE line.added[1]
                      deleted == IF line.deleted = None THEN 0
                                 ELSE line.deleted[1]
                      c == current_commit[1]
                  IN  ParseNumstatFrom(
                          Tail(lines),
                          Some([c EXCEPT !.added = @ + added,
                                         !.deleted = @ + deleted,
                                         !.delta = @ + added + deleted]),
                          commits)
             ELSE ParseNumstatFrom(Tail(lines), current_commit, commits)

\* _parse_git_log_numstat
ParseGitLogNumstat(output) == ParseNumstatFrom(output, None, <<>>)

\* The mutant has no except clause.
GetCommitsInWindow_NoExcept(repo_exists, run) ==
    IF ~repo_exists THEN Return(<<>>)
    ELSE IF run.raises /= None THEN Raise(run.raises[1])
    ELSE IF run.returncode /= 0 THEN Return(<<>>)
    ELSE Return(ParseGitLogNumstat(run.stdout))

\* get_commits_in_window
GetCommitsInWindow(repo_exists, run) ==
    IF ~repo_exists THEN Return(<<>>)
    ELSE IF run.raises /= None
    THEN IF run.raises[1] \in {"OSError", "SubprocessError"}
         THEN Return(<<>>)
         ELSE Raise(run.raises[1])
    ELSE IF run.returncode /= 0 THEN Return(<<>>)
    ELSE Return(ParseGitLogNumstat(run.stdout))

\* sum(c["delta"] for c in commits)
RECURSIVE TotalDelta(_)
TotalDelta(commits) ==
    IF commits = <<>> THEN 0 ELSE Head(commits).delta + TotalDelta(Tail(commits))

\* _cmd_compare: commits = get_commits_in_window(...), then the commits and
\* delta fields of the session's SessionMetrics
CallGetCommitsInWindow ==
    /\ gcw_op = "none"
    /\ gcw_op' = "get_commits_in_window"
    /\ LET r == GetCommitsInWindow(gcw_repo_exists, gcw_run[1])
       IN  /\ gcw_result' = Some(r)
           /\ gcw_metrics' =
                 IF r.raised /= None THEN None
                 ELSE Some([commits |-> Len(r.value),
                            delta |-> TotalDelta(r.value)])
    /\ UNCHANGED <<gcw_repo_exists, gcw_run>>
    /\ UNCHANGED <<old_vars, col_vars, sit_vars, rcr_vars>>

InitCommits ==
    /\ gcw_repo_exists \in BOOLEAN
    /\ gcw_run \in {Some(run) : run \in SubprocessRuns}
    /\ gcw_op = "none"
    /\ gcw_result = None
    /\ gcw_metrics = None
    /\ SessionsIdle
    /\ CovIdle
    /\ CmpIdle
    /\ CfgIdle
    /\ AggIdle
    /\ EstIdle
    /\ RefIdle
    /\ DcwIdle
    /\ ColIdle
    /\ SitIdle
    /\ RcrIdle

NextCommits ==
    \/ CallGetCommitsInWindow

SpecCommits == InitCommits /\ [][NextCommits]_vars

-----------------------------------------------------------------------------
(* collect_interactions (ai_hours.py), one line of a session file at a      *)
(* time: the Claude files first, then the Codex files.  A line is a JSON    *)
(* object (one of the records above), text that is not JSON, or a JSON      *)
(* value that is not an object, such as [].                                 *)

\* The lines a session file can hold, given the records of its source
JsonLines(records) ==
    LET other == CHOOSE r \in records : TRUE
    IN  {[json |-> "object", msg |-> r] : r \in records}
        \cup {[json |-> j, msg |-> other] : j \in {"invalid", "array"}}

\* The mutant keeps the cwd of the file read before.
CwdAtFileStart_Kept(cwd) == cwd

\* "cwd: Optional[str] = None" at the top of the loop over the session files
CwdAtFileStart(cwd) == None

\* for project_dir ...: for session_file in project_dir.glob("*.jsonl")
OpenClaudeFile ==
    /\ col_pc = "claude"
    /\ col_file' = Some([source |-> "claude", lines |-> <<>>])
    /\ UNCHANGED <<col_pc, col_lines_left, col_cwd, col_interactions,
                   col_raised>>
    /\ UNCHANGED <<old_vars, gcw_vars, sit_vars, rcr_vars>>

\* for session_file in sessions_dir.rglob("*.jsonl"), after the last Claude
\* file
OpenCodexFile ==
    /\ col_pc \in {"claude", "codex"}
    /\ col_pc' = "codex"
    /\ col_cwd' = CwdAtFileStart(col_cwd)
    /\ col_file' = Some([source |-> "codex", lines |-> <<>>])
    /\ UNCHANGED <<col_lines_left, col_interactions, col_raised>>
    /\ UNCHANGED <<old_vars, gcw_vars, sit_vars, rcr_vars>>

\* What a line does to the variables both parsers have: json.loads raises
\* JSONDecodeError on text that is not JSON and the line is skipped;
\* msg.get raises AttributeError on a value that is not an object, and no
\* except clause on the way out of collect_interactions catches it.
ReadLine(line, events) ==
    /\ col_file' = Some([col_file[1] EXCEPT !.lines = Append(@, line)])
    /\ col_lines_left' = col_lines_left - 1
    /\ IF line.json = "array"
       THEN /\ col_raised' = Some("AttributeError")
            /\ col_pc' = "raised"
            /\ UNCHANGED col_interactions
       ELSE /\ col_interactions' =
                  IF line.json = "invalid" THEN col_interactions
                  ELSE col_interactions \o events
            /\ UNCHANGED <<col_raised, col_pc>>

\* "for line in f" of _parse_claude_sessions
ReadClaudeLine ==
    /\ col_pc = "claude"
    /\ col_file /= None
    /\ col_lines_left > 0
    /\ \E line \in JsonLines(ClaudeRecords) :
          ReadLine(line, ParseClaudeSessions(<<line.msg>>))
    /\ UNCHANGED col_cwd
    /\ UNCHANGED <<old_vars, gcw_vars, sit_vars, rcr_vars>>

\* "for line in f" of _parse_codex_sessions
ReadCodexLine ==
    /\ col_pc = "codex"
    /\ col_lines_left > 0
    /\ \E line \in JsonLines(CodexRecords) :
          /\ ReadLine(line, ParseCodexFrom(<<line.msg>>, col_cwd))
          /\ col_cwd' = IF line.json = "object" /\ line.msg.type = "session_meta"
                        THEN Some(line.msg.cwd)
                        ELSE col_cwd
    /\ UNCHANGED <<old_vars, gcw_vars, sit_vars, rcr_vars>>

\* interactions.sort(key=lambda i: i.timestamp); return interactions
SortInteractions ==
    /\ col_pc \in {"claude", "codex"}
    /\ col_interactions' =
          StableSort(col_interactions, TimestampKeys(col_interactions))
    /\ col_pc' = "done"
    /\ UNCHANGED <<col_lines_left, col_cwd, col_file, col_raised>>
    /\ UNCHANGED <<old_vars, gcw_vars, sit_vars, rcr_vars>>

InitCollect ==
    /\ col_pc = "claude"
    /\ col_lines_left = MaxLines
    /\ col_cwd = None
    /\ col_file = None
    /\ col_interactions = <<>>
    /\ col_raised = None
    /\ SessionsIdle
    /\ CovIdle
    /\ CmpIdle
    /\ CfgIdle
    /\ AggIdle
    /\ EstIdle
    /\ RefIdle
    /\ DcwIdle
    /\ GcwIdle
    /\ SitIdle
    /\ RcrIdle

NextCollect ==
    \/ OpenClaudeFile
    \/ ReadClaudeLine
    \/ OpenCodexFile
    \/ ReadCodexLine
    \/ SortInteractions

SpecCollect == InitCollect /\ [][NextCollect]_vars

-----------------------------------------------------------------------------
(* Sitting segmentation: one chronological scan over the events of all      *)
(* projects.  A sitting has start_ts, end_ts, the number of its             *)
(* interactions and the set of the project names touched.                   *)

SITTING_GAP_SECONDS == 20 * 60

\* Timestamps one second below the threshold, at it and beyond it
SittingTimestamps == {0, 1199, 1200, 2399}

\* The mutant splits only on a gap above the threshold.
StartsNewSitting_Strict(event, sitting) ==
    event.timestamp - sitting.end_ts > SITTING_GAP_SECONDS

\* A new sitting begins when the gap between the event and the end of the
\* current sitting is >= 1200 seconds
StartsNewSitting(event, sitting) ==
    event.timestamp - sitting.end_ts >= SITTING_GAP_SECONDS

\* The sitting a single event makes
SittingOf(event) ==
    [start_ts |-> event.timestamp, end_ts |-> event.timestamp,
     interactions |-> 1, projects |-> {ProjectName(event.project)}]

\* One event of the scan
ProcessSittingEvent ==
    /\ sit_idx >= 1
    /\ sit_idx <= Len(sit_events)
    /\ LET event == sit_events[sit_idx]
       IN  IF sit_current = None
           THEN /\ sit_current' = Some(SittingOf(event))
                /\ UNCHANGED sit_sittings
           ELSE IF StartsNewSitting(event, sit_current[1])
           THEN /\ sit_sittings' = Append(sit_sittings, sit_current[1])
                /\ sit_current' = Some(SittingOf(event))
           ELSE /\ sit_current' =
                      Some([sit_current[1] EXCEPT
                               !.end_ts = event.timestamp,
                               !.interactions = @ + 1,
                               !.projects = @ \cup {ProjectName(event.project)}])
                /\ UNCHANGED sit_sittings
    /\ sit_idx' = sit_idx + 1
    /\ UNCHANGED sit_events
    /\ UNCHANGED <<old_vars, gcw_vars, col_vars, rcr_vars>>

\* The end of the scan: the open sitting is emitted
FlushSitting ==
    /\ sit_idx = Len(sit_events) + 1
    /\ sit_sittings' = IF sit_current = None THEN sit_sittings
                       ELSE Append(sit_sittings, sit_current[1])
    /\ sit_current' = None
    /\ sit_idx' = 0
    /\ UNCHANGED sit_events
    /\ UNCHANGED <<old_vars, gcw_vars, col_vars, rcr_vars>>

\* The scan starts on a list of events in time order
InitSittings ==
    /\ sit_events \in
          {es \in SeqsUpTo([timestamp : SittingTimestamps,
                            message_type : MessageTypes,
                            project : ProjectPaths], MaxSittingEvents) :
              \A k \in 1..(Len(es) - 1) : es[k].timestamp <= es[k + 1].timestamp}
    /\ sit_idx = 1
    /\ sit_current = None
    /\ sit_sittings = <<>>
    /\ SessionsIdle
    /\ CovIdle
    /\ CmpIdle
    /\ CfgIdle
    /\ AggIdle
    /\ EstIdle
    /\ RefIdle
    /\ DcwIdle
    /\ GcwIdle
    /\ ColIdle
    /\ RcrIdle

NextSittings ==
    \/ ProcessSittingEvent
    \/ FlushSitting

SpecSittings == InitSittings /\ [][NextSittings]_vars

-----------------------------------------------------------------------------
(* resolve_cwd_to_repo (repo_detection.py), called several times with one   *)
(* PathConfig and one cache.  A path string is the sequence of its          *)
(* components; the value the function returns is None or Some(root).        *)

\* The cwd arguments
ResolveCwds == {<<"work">>, <<"work", "y">>, <<"home", "x">>, <<"tmp">>}

\* PathConfig(remap, ignore): remap is a dict, here a function
PathConfigs ==
    [remap : {<<>>,
              [c \in {<<"work", "y">>} |-> <<"home", "x">>],
              [c \in {<<"tmp">>} |-> <<"work">>]},
     ignore : {{}, {<<"work">>}, {<<"tmp">>, <<"home", "x">>}}]

\* _is_ignored: cwd == ignored or cwd.startswith(ignored + "/")
IsIgnored(cwd, ignore) ==
    \E ignored \in ignore :
        \/ cwd = ignored
        \/ /\ Len(cwd) > Len(ignored)
           /\ SubSeq(cwd, 1, Len(ignored)) = ignored

\* The mutant takes a cached None for a missing key.
CacheHit_NotNone(resolved_cwd, cache) ==
    resolved_cwd \in DOMAIN cache /\ cache[resolved_cwd] /= None

\* if resolved_cwd in cache
CacheHit(resolved_cwd, cache) == resolved_cwd \in DOMAIN cache

\* resolve_cwd_to_repo(cwd, config, cache); detect_git_root gives None or
\* the root of the repository the path is in.
ResolveCwdToRepo ==
    /\ rcr_config /= None
    /\ IF rcr_call = None THEN TRUE
       ELSE rcr_call[1].number < MaxResolveCalls
    /\ \E cwd \in ResolveCwds :
          LET config == rcr_config[1]
              number == IF rcr_call = None THEN 1 ELSE rcr_call[1].number + 1
              resolved_cwd == IF cwd \in DOMAIN config.remap
                              THEN config.remap[cwd] ELSE cwd
              Returns(v) == rcr_call' = Some([number |-> number, cwd |-> cwd,
                                              result |-> v])
          IN  IF IsIgnored(cwd, config.ignore)
              THEN /\ Returns(None)
                   /\ UNCHANGED <<rcr_cache, rcr_detected>>
              ELSE IF CacheHit(resolved_cwd, rcr_cache)
              THEN /\ Returns(rcr_cache[resolved_cwd])
                   /\ UNCHANGED <<rcr_cache, rcr_detected>>
              ELSE \E repo_root \in {None, Some(SubSeq(resolved_cwd, 1, 1))} :
                      /\ rcr_detected' = Append(rcr_detected, resolved_cwd)
                      /\ rcr_cache' =
                            [k \in DOMAIN rcr_cache \cup {resolved_cwd} |->
                                IF k = resolved_cwd THEN repo_root
                                ELSE rcr_cache[k]]
                      /\ Returns(repo_root)
    /\ UNCHANGED rcr_config
    /\ UNCHANGED <<old_vars, gcw_vars, col_vars, sit_vars>>

\* cache = {} (collect_repos_from_interactions)
InitResolve ==
    /\ rcr_config \in {Some(config) : config \in PathConfigs}
    /\ rcr_cache = <<>>
    /\ rcr_call = None
    /\ rcr_detected = <<>>
    /\ SessionsIdle
    /\ CovIdle
    /\ CmpIdle
    /\ CfgIdle
    /\ AggIdle
    /\ EstIdle
    /\ RefIdle
    /\ DcwIdle
    /\ GcwIdle
    /\ ColIdle
    /\ SitIdle

NextResolve ==
    \/ ResolveCwdToRepo

SpecResolve == InitResolve /\ [][NextResolve]_vars

-----------------------------------------------------------------------------
(* detect_sessions on a list in any order, with and without a               *)
(* project_filter                                                            *)

InitUnsorted ==
    /\ interactions \in SeqsUpTo([timestamp : FilterTimestamps,
                                  message_type : MessageTypes,
                                  project : FilterPaths], MaxUnsortedEvents)
    /\ project_filter \in {None, Some("x")}
    /\ ds_pc = "group"
    /\ by_project = <<>>
    /\ project_order = <<>>
    /\ proj_idx = 0
    /\ proj_interactions = <<>>
    /\ inter_idx = 0
    /\ session_start = None
    /\ session_end = None
    /\ session_count = 0
    /\ last_assistant_ts = None
    /\ cur_folded = <<>>
    /\ sessions = <<>>
    /\ CovIdle
    /\ CmpIdle
    /\ ExtIdle

SpecUnsorted == InitUnsorted /\ [][NextSessions]_vars

-----------------------------------------------------------------------------
(* Properties of detect_sessions *)

\* The timestamp of the most recent assistant event before position idx of
\* a project's time-sorted sequence, None when there is none.
PriorAssistantTs(seq, idx) ==
    LET js == {j \in 1..(idx - 1) : seq[j].message_type = "assistant"}
    IN  IF js = {} THEN None
        ELSE Some(seq[CHOOSE j \in js : \A k \in js : k <= j].timestamp)

\* The step that processes one event of the project being scanned
ProcessesOne ==
    /\ ds_pc = "scan"
    /\ inter_idx <= Len(proj_interactions)
    /\ inter_idx' = inter_idx + 1

\* The event processed last, while a project is being scanned
JustProcessed == proj_interactions[inter_idx - 1]

\* C1: a user event U whose most recent same-project assistant event A has
\* U.timestamp - A.timestamp >= 300 is the first event of a new session (the
\* open session is closed and emitted); with a gap < 300 it is folded into
\* the open session.  A gap of 300 splits, a gap of 299 does not.
C1_UserGapSplits ==
    [][ProcessesOne =>
        LET u == proj_interactions[inter_idx]
            a == PriorAssistantTs(proj_interactions, inter_idx)
        IN  (u.message_type = "user" /\ a # None) =>
               /\ (u.timestamp - a[1] >= 300) =>
                     /\ cur_folded' = <<u>>
                     /\ Len(sessions') = Len(sessions) + 1
                     /\ sessions'[Len(sessions')].folded = cur_folded
               /\ (u.timestamp - a[1] < 300) =>
                     /\ cur_folded # <<>>
                     /\ cur_folded' = Append(cur_folded, u)
                     /\ sessions' = sessions]_vars

\* C1 witness: a user event has just started a new session at a gap of
\* exactly 300, and an earlier user event of the same project was folded at
\* a gap of exactly 299.
C1_Witness ==
    /\ ds_pc = "scan"
    /\ inter_idx > 1
    /\ cur_folded = <<JustProcessed>>
    /\ JustProcessed.message_type = "user"
    /\ PriorAssistantTs(proj_interactions, inter_idx - 1) # None
    /\ JustProcessed.timestamp
          - PriorAssistantTs(proj_interactions, inter_idx - 1)[1] = 300
    /\ \E k \in 2..(inter_idx - 2) :
          /\ proj_interactions[k].message_type = "user"
          /\ PriorAssistantTs(proj_interactions, k) # None
          /\ proj_interactions[k].timestamp
                - PriorAssistantTs(proj_interactions, k)[1] = 299
          /\ \E s \in 1..Len(sessions) :
                /\ sessions[s].project_full = JustProcessed.project
                /\ \E j \in 2..Len(sessions[s].folded) :
                      sessions[s].folded[j] = proj_interactions[k]

\* C2: an assistant event, and a user event before any assistant event of
\* its project, never closes the open session, whatever the gap: it is
\* appended to the open session, or initialises the project's first one.
C2_OnlyUserAfterAssistantSplits ==
    [][ProcessesOne =>
        LET e == proj_interactions[inter_idx]
            a == PriorAssistantTs(proj_interactions, inter_idx)
        IN  (e.message_type = "assistant" \/ a = None) =>
               /\ sessions' = sessions
               /\ cur_folded' = Append(cur_folded, e)
               /\ (cur_folded = <<>> => inter_idx = 1)]_vars

\* C2 witness: one open session holds a user event, a second user event 300
\* or more seconds later (no assistant event yet) and an assistant event 300
\* or more seconds after that.
C2_Witness ==
    /\ ds_pc = "scan"
    /\ Len(cur_folded) = 3
    /\ cur_folded[1].message_type = "user"
    /\ cur_folded[2].message_type = "user"
    /\ cur_folded[3].message_type = "assistant"
    /\ cur_folded[2].timestamp - cur_folded[1].timestamp >= 300
    /\ cur_folded[3].timestamp - cur_folded[2].timestamp >= 300

\* C3: every session of a project other than its first starts right after
\* an assistant event: the event that precedes the session's first event in
\* the project's time-sorted sequence is an assistant event.
C3_BoundaryFollowsAssistant ==
    (/\ ds_pc = "scan"
     /\ Len(cur_folded) >= 1
     /\ inter_idx - 1 - Len(cur_folded) >= 1)
    => proj_interactions[inter_idx - 1 - Len(cur_folded)].message_type
          = "assistant"

\* C4: an event with the timestamp of the event that precedes it in its
\* project never starts a new session: it is folded into that event's session.
C4_SameTimestampFolded ==
    (/\ ds_pc = "scan"
     /\ inter_idx > 2
     /\ JustProcessed.timestamp = proj_interactions[inter_idx - 2].timestamp)
    => Len(cur_folded) >= 2

\* C5: every Session has start_ts = timestamp of the first event folded into
\* it, end_ts = timestamp of the last one, interactions = the number of
\* events folded into it, interactions >= 1 and start_ts <= end_ts.
C5_SessionSpanAndCount ==
    \A k \in 1..Len(sessions) :
        LET s == sessions[k]
        IN  /\ s.interactions = Len(s.folded)
            /\ s.interactions >= 1
            /\ s.start_ts = s.folded[1].timestamp
            /\ s.end_ts = s.folded[Len(s.folded)].timestamp
            /\ s.start_ts <= s.end_ts

\* C5 witness: detect_sessions has returned a session of more than one
\* event whose end is later than its start.
C5_Witness ==
    /\ ds_pc = "done"
    /\ \E k \in 1..Len(sessions) :
          /\ sessions[k].interactions >= 2
          /\ sessions[k].start_ts < sessions[k].end_ts

-----------------------------------------------------------------------------
(* Properties of the coverage-window functions *)

\* The ordinal of each date of the model
OrdinalOfDate == [d \in Dates |-> Ordinal(d)]

\* The calendar days of a window list, as ordinals
DaysOf(windows) ==
    {OrdinalOfDate[d] : d \in {e \in Dates :
        \E k \in 1..Len(windows) :
            /\ OrdinalOfDate[windows[k][1]] <= OrdinalOfDate[e]
            /\ OrdinalOfDate[e] <= OrdinalOfDate[windows[k][2]]}}

\* C6: the list merge_coverage_windows returns, and the list
\* intersect_coverage_windows returns, is sorted ascending by start and no
\* two of its windows overlap or touch: each window starts more than one
\* day after the end of the window before it.
C6_ResultSortedAndSeparated ==
    cov_op \in {"merge", "intersect"} =>
        \A k \in 1..(Len(cov_result) - 1) :
            /\ Ordinal(cov_result[k][1]) < Ordinal(cov_result[k + 1][1])
            /\ Ordinal(cov_result[k + 1][1]) > Ordinal(cov_result[k][2]) + 1

\* C6 witness: merge has returned two windows for three windows given out
\* of start order, two of which overlapped.
C6_Witness ==
    /\ cov_op = "merge"
    /\ Len(windows1) = 3
    /\ Len(cov_result) = 2
    /\ Ordinal(windows1[1][1]) > Ordinal(windows1[2][1])
    /\ \E i, j \in 1..3 :
          /\ i # j
          /\ Ordinal(windows1[i][1]) < Ordinal(windows1[j][1])
          /\ Ordinal(windows1[j][1]) <= Ordinal(windows1[i][2])

\* The latest end among the first k windows of a list, as an ordinal
MaxEndOrdinal(windows, k) ==
    CHOOSE o \in {Ordinal(windows[j][2]) : j \in 1..k} :
        \A j \in 1..k : Ordinal(windows[j][2]) <= o

\* C7: merge folds the next window (in start order) into the current
\* interval exactly when next_start <= current_end + 1 day: the result has
\* one window more for every window that starts two or more days after the
\* latest end before it, and only for those; two windows with
\* next_start = current_end + 1 day give one window, with
\* next_start = current_end + 2 days they stay two.
C7_MergesExactlyWithinOneDay ==
    (cov_op = "merge" /\ windows1 # <<>>) =>
        LET sorted == StableSort(windows1,
                         [k \in 1..Len(windows1) |-> Ordinal(windows1[k][1])])
            gaps == {k \in 2..Len(sorted) :
                        Ordinal(sorted[k][1]) > MaxEndOrdinal(sorted, k - 1) + 1}
        IN  /\ Len(cov_result) = 1 + Cardinality(gaps)
            /\ \A k \in gaps :
                  \E r \in 1..Len(cov_result) : cov_result[r][1] = sorted[k][1]
            /\ cov_result[1][1] = sorted[1][1]

\* C7 witness: two windows, the second starting the day after the first
\* ends, in different months, have been merged into one window.
C7_Witness ==
    /\ cov_op = "merge"
    /\ Len(windows1) = 2
    /\ windows1[1][2][2] # windows1[2][1][2]
    /\ Ordinal(windows1[2][1]) = Ordinal(windows1[1][2]) + 1
    /\ cov_result = <<<<windows1[1][1], windows1[2][2]>>>>

C9_CoveredIffInSomeWindow ==
    cov_op = "covered" =>
        /\ cov_covered <=>
              \E k \in 1..Len(windows1) :
                  /\ Ordinal(windows1[k][1]) <= Ordinal(cov_date[1])
                  /\ Ordinal(cov_date[1]) <= Ordinal(windows1[k][2])
        /\ windows1 = <<>> => ~cov_covered

\* C9 witness: the date lies in the gap between two windows, after the
\* first and before the second, and is reported not covered.
C9_Witness ==
    /\ cov_op = "covered"
    /\ Len(windows1) = 2
    /\ Ordinal(windows1[1][2]) < Ordinal(cov_date[1])
    /\ Ordinal(cov_date[1]) < Ordinal(windows1[2][1])
    /\ ~cov_covered

-----------------------------------------------------------------------------
(* Properties of _cmd_compare *)

BothSources == claude_coverage # <<>> /\ codex_coverage # <<>>

\* Every session that contributed has a start date both sources cover
ContributorsCoveredByBoth ==
    \A k \in 1..Len(session_metrics) :
        /\ OrdinalOfDate[session_metrics[k].date] \in DaysOf(raw_coverage.claude)
        /\ OrdinalOfDate[session_metrics[k].date] \in DaysOf(raw_coverage.codex)

\* With one source only, its merged windows are the effective coverage, and
\* with none, no session is excluded by coverage.
OneOrNoSourceRule ==
    /\ (claude_coverage # <<>> /\ codex_coverage = <<>>) =>
          /\ coverage_windows = claude_coverage
          /\ \A k \in 1..Len(session_metrics) :
                OrdinalOfDate[session_metrics[k].date] \in DaysOf(raw_coverage.claude)
    /\ (claude_coverage = <<>> /\ codex_coverage # <<>>) =>
          /\ coverage_windows = codex_coverage
          /\ \A k \in 1..Len(session_metrics) :
                OrdinalOfDate[session_metrics[k].date] \in DaysOf(raw_coverage.codex)
    /\ (claude_coverage = <<>> /\ codex_coverage = <<>>) =>
          /\ coverage_windows = <<>>
          /\ skipped_no_coverage = 0

-----------------------------------------------------------------------------
(* Properties of the configuration classifier *)

\* The adoption date is None, or the checked date is before it
BeforeAdoption ==
    \/ cfg_beads_date = None
    \/ StrLt(cfg_check_date, cfg_beads_date[1])

\* C11: the classifier returns "none" whenever beads_date is None and
\* whenever the checked date is before beads_date, whatever the second
\* argument is: None, a beadhub date, or the flag of classify_session.
C11_NoneBeforeAdoption ==
    (cfg_op /= "none" /\ BeforeAdoption) => cfg_result = Some("none")

\* C11's case: classify_session on a flagged repository, for a session
\* that starts before the adoption date.
C11_Witness ==
    /\ cfg_op = "classify_session"
    /\ cfg_beadhub = PyBool(TRUE)
    /\ cfg_beads_date /= None
    /\ StrLt(cfg_check_date, cfg_beads_date[1])
    /\ cfg_result = Some("none")

\* C12: classify_session gives "beads+beadhub" to a flagged repository and
\* "beads" to an unflagged one for every session_start_date >= beads_date.
C12_FlagDecidesFromAdoption ==
    (cfg_op = "classify_session" /\ ~BeforeAdoption) =>
        cfg_result = Some(IF cfg_beadhub[2] THEN "beads+beadhub" ELSE "beads")

\* C13: get_configuration with both dates set returns "beads" from the
\* beads date up to the day before the beadhub date and "beads+beadhub"
\* from the later of the two dates on; with no beadhub date it returns
\* "beads" from the beads date on, that day included.
C13_DatesDecide ==
    (cfg_op = "get_configuration" /\ ~BeforeAdoption) =>
        cfg_result = Some(IF cfg_beadhub /= None
                             /\ StrLe(cfg_beadhub[2], cfg_check_date)
                          THEN "beads+beadhub"
                          ELSE "beads")

\* C13's case: checked on the beadhub date itself, after the beads date.
C13_Witness ==
    /\ cfg_op = "get_configuration"
    /\ cfg_beads_date /= None
    /\ cfg_beadhub /= None
    /\ StrLt(cfg_beads_date[1], cfg_check_date)
    /\ cfg_beadhub[2] = cfg_check_date
    /\ cfg_result = Some("beads+beadhub")

-----------------------------------------------------------------------------
(* Properties of the aggregators *)

\* The rows an aggregator returned
ReturnedRows ==
    IF agg_op = "aggregate_by_configuration"
    THEN {agg_by_config[config] : config \in DOMAIN agg_by_config}
    ELSE {agg_rows[k] : k \in 1..Len(agg_rows)}

\* rate is the quotient of total by hours
IsQuotient(rate, total, hours) ==
    rate.den > 0 /\ rate.num * hours = total * rate.den

\* C14: an aggregator never raises a division error, and in every row it
\* returns delta_per_hour is delta / hours and commits_per_hour is
\* commits / hours when the row's hours are above 0, and both are 0 when
\* its hours are 0.
C14_RatesAreQuotientsOrZero ==
    agg_op /= "none" =>
        /\ agg_raised = None
        /\ \A m \in ReturnedRows :
              IF m.hours > 0
              THEN /\ IsQuotient(m.delta_per_hour, m.delta, m.hours)
                   /\ IsQuotient(m.commits_per_hour, m.commits, m.hours)
              ELSE /\ m.hours = 0
                   /\ m.delta_per_hour.num = 0
                   /\ m.commits_per_hour.num = 0

\* C14's case: the rows returned have one without hours but with commits
\* and changed lines, and one whose rate is not a whole number.
C14_Witness ==
    /\ agg_op = "aggregate_by_date_and_configuration"
    /\ \E m \in ReturnedRows : m.hours = 0 /\ m.delta > 0 /\ m.commits > 0
    /\ \E m \in ReturnedRows : m.hours > 0 /\ m.delta_per_hour.den > 1

\* The input sessions of a configuration, and the sum of one of their fields
SessionsOf(config) ==
    {k \in 1..Len(agg_session_metrics) :
        agg_session_metrics[k].configuration = config}

RECURSIVE SumAt(_, _)
SumAt(values, indices) ==
    IF indices = {} THEN 0
    ELSE LET k == CHOOSE i \in indices : TRUE
         IN  values[k] + SumAt(values, indices \ {k})

\* C15: aggregate_by_configuration returns exactly the keys "none", "beads"
\* and "beads+beadhub", and under each key the number of input sessions of
\* that configuration and the sums of their hours, commits and delta.
C15_ThreeKeysWithCountsAndSums ==
    agg_op = "aggregate_by_configuration" =>
        /\ DOMAIN agg_by_config = {"none", "beads", "beads+beadhub"}
        /\ \A config \in DOMAIN agg_by_config :
              LET m == agg_by_config[config]
                  Field(f) == [k \in 1..Len(agg_session_metrics) |->
                                  agg_session_metrics[k][f]]
              IN  /\ m.sessions = Cardinality(SessionsOf(config))
                  /\ m.hours = SumAt(Field("hours"), SessionsOf(config))
                  /\ m.commits = SumAt(Field("commits"), SessionsOf(config))
                  /\ m.delta = SumAt(Field("delta"), SessionsOf(config))

\* C15's case: two sessions of one configuration were added up, and a key
\* without sessions is there.
C15_Witness ==
    /\ agg_op = "aggregate_by_configuration"
    /\ \E config \in DOMAIN agg_by_config :
          /\ agg_by_config[config].sessions = 2
          /\ agg_by_config[config].delta = 8
    /\ \E config \in DOMAIN agg_by_config : agg_by_config[config].sessions = 0

\* The (date, configuration) pairs of a list of sessions or rows
PairsOf(seq) == {<<seq[k].date, seq[k].configuration>> : k \in 1..Len(seq)}

\* The place of a configuration in the order none, beads, beads+beadhub
FixedOrder(configuration) ==
    CASE configuration = "none" -> 1
      [] configuration = "beads" -> 2
      [] configuration = "beads+beadhub" -> 3
      [] OTHER -> 0

\* C16: aggregate_by_date_and_configuration returns one row for each
\* (date, configuration) pair of the input and no other row; the rows are
\* in ascending date order and, within a date, none comes before beads and
\* beads before beads+beadhub; the empty input gives the empty list.
C16_OneRowPerPairSorted ==
    agg_op = "aggregate_by_date_and_configuration" =>
        /\ PairsOf(agg_rows) = PairsOf(agg_session_metrics)
        /\ Len(agg_rows) = Cardinality(PairsOf(agg_session_metrics))
        /\ \A i, j \in 1..Len(agg_rows) :
              i < j =>
                 /\ StrLe(agg_rows[i].date, agg_rows[j].date)
                 /\ (/\ agg_rows[i].date = agg_rows[j].date
                     /\ FixedOrder(agg_rows[i].configuration) > 0
                     /\ FixedOrder(agg_rows[j].configuration) > 0)
                    => FixedOrder(agg_rows[i].configuration)
                          < FixedOrder(agg_rows[j].configuration)
        /\ agg_session_metrics = <<>> => agg_rows = <<>>

\* C16's case: the input had the later date first, and the two rows came
\* out in date order.
C16_Witness ==
    /\ agg_op = "aggregate_by_date_and_configuration"
    /\ Len(agg_session_metrics) = 2
    /\ StrLt(agg_session_metrics[2].date, agg_session_metrics[1].date)
    /\ Len(agg_rows) = 2
    /\ agg_rows[1].date = agg_session_metrics[2].date

-----------------------------------------------------------------------------
(* Properties of Session *)

\* C17: estimated_seconds is max(0, end_ts - start_ts) + 180, so it is at
\* least 180 also when end_ts is before start_ts; a session whose end is
\* its start (a single event) has duration 0 and estimated duration 180.
C17_EstimatedIsDurationPlusPrefix ==
    est_op = "estimated_seconds" =>
        LET s == est_session[1]
            diff == s.end_ts - s.start_ts
        IN  /\ est_estimated_seconds
                  = Some((IF diff > 0 THEN diff ELSE 0) + 180)
            /\ est_estimated_seconds[1] >= 180
            /\ s.end_ts = s.start_ts =>
                  /\ est_duration_seconds = Some(0)
                  /\ est_estimated_seconds = Some(180)

\* C17's case: a session that ends before it starts has been read.
C17_Witness ==
    /\ est_op = "estimated_seconds"
    /\ est_session[1].end_ts < est_session[1].start_ts
    /\ est_estimated_seconds = Some(180)

\* C18: detect_sessions returns the empty list for the empty list, and for
\* a list of one event one session that starts and ends at the event's
\* timestamp and counts one interaction, whether the event is a user's or
\* an assistant's.
C18_EmptyAndSingleEvent ==
    ds_pc = "done" =>
        /\ interactions = <<>> => sessions = <<>>
        /\ Len(interactions) = 1 =>
              /\ Len(sessions) = 1
              /\ sessions[1].start_ts = interactions[1].timestamp
              /\ sessions[1].end_ts = interactions[1].timestamp
              /\ sessions[1].interactions = 1

\* C18's case: the one event was an assistant's, and its session is
\* returned.
C18_Witness ==
    /\ ds_pc = "done"
    /\ Len(interactions) = 1
    /\ interactions[1].message_type = "assistant"
    /\ Len(sessions) = 1
    /\ sessions[1].interactions = 1

\* The call with a non-empty project_filter has returned
FilteredDone ==
    /\ ds_pc = "done"
    /\ ref_sessions /= None
    /\ project_filter[1] /= ""

-----------------------------------------------------------------------------
(* Properties of detect_coverage_windows *)

\* The events the Normalizer emits for the directory scanned last
NormalizerEvents ==
    IF dcw_log[1].source = "claude"
    THEN ParseClaudeSessions(dcw_log[1].records)
    ELSE ParseCodexSessions(dcw_log[1].records)

\* The window from the date of the earliest to the date of the latest event
EventWindow(events) ==
    LET ts == {events[k].timestamp : k \in 1..Len(events)}
    IN  <<DateOfTimestamp(CHOOSE t \in ts : \A u \in ts : t <= u),
          DateOfTimestamp(CHOOSE t \in ts : \A u \in ts : u <= t)>>

\* A directory has just been scanned
ScannedOne ==
    \/ dcw_claude_dirs' /= dcw_claude_dirs
    \/ dcw_codex_dirs' /= dcw_codex_dirs

\* C20: scanning a location adds nothing to the result when the Normalizer
\* emits no event for it, and otherwise appends one window to its source's
\* list, from the date of its earliest event to the date of its latest
\* event, leaving the windows of the other locations as they are.
C20_OneWindowPerLocationWithEvents ==
    [][ScannedOne =>
           LET source == dcw_log'[1].source
               events == NormalizerEvents'
           IN  IF events = <<>>
               THEN dcw_result' = dcw_result
               ELSE dcw_result' =
                       [dcw_result EXCEPT
                           ![source] = Append(@, EventWindow(events))]]_vars

-----------------------------------------------------------------------------
(* Properties of get_commits_in_window *)

\* A git failure: the repository is missing, starting git raised OSError
\* or SubprocessError, or git exited with a non-zero code
GitFailure ==
    \/ ~gcw_repo_exists
    \/ /\ gcw_run[1].raises /= None
       /\ gcw_run[1].raises[1] \in {"OSError", "SubprocessError"}
    \/ /\ gcw_run[1].raises = None
       /\ gcw_run[1].returncode /= 0

\* C21: on a git failure get_commits_in_window raises nothing and returns
\* the empty list, and the session's metrics get 0 commits and 0 delta.
C21_GitFailureGivesNoCommits ==
    (gcw_op = "get_commits_in_window" /\ GitFailure) =>
        /\ gcw_result[1].raised = None
        /\ gcw_result[1].value = <<>>
        /\ gcw_metrics = Some([commits |-> 0, delta |-> 0])

\* Git was started in an existing directory and failed: an exception in one
\* run, a non-zero exit code with output in another
C21_Witness ==
    /\ gcw_op = "get_commits_in_window"
    /\ gcw_repo_exists
    /\ \/ gcw_run[1].raises = Some("SubprocessError")
       \/ /\ gcw_run[1].raises = None
          /\ gcw_run[1].returncode = 128
          /\ Len(gcw_run[1].stdout) > 0
    /\ gcw_metrics = Some([commits |-> 0, delta |-> 0])

-----------------------------------------------------------------------------
(* Properties of collect_interactions and of the Codex parser *)

\* A line of the open file has just been read
LineRead == col_lines_left' /= col_lines_left

\* The line read last
LastLine == col_file[1].lines[Len(col_file[1].lines)]

\* The events the last step appended
NewEvents ==
    SubSeq(col_interactions', Len(col_interactions) + 1, Len(col_interactions'))

\* A record that is not parseable, has no timestamp, or has another role
\* than user and assistant
Unusable(source, line) ==
    \/ line.json /= "object"
    \/ line.msg.timestamp = None
    \/ source = "claude" /\ line.msg.type \notin {"user", "assistant"}
    \/ /\ source = "codex"
       /\ line.msg.type = "response_item"
       /\ line.msg.payload_type = "message"
       /\ line.msg.role \notin {"user", "assistant"}

\* out is the list in ordered by timestamp, equal timestamps in the order of in
IsStableSortOf(out, in) ==
    /\ \A k \in 1..(Len(out) - 1) : out[k].timestamp <= out[k + 1].timestamp
    /\ \A t \in {in[k].timestamp : k \in 1..Len(in)}
                \cup {out[k].timestamp : k \in 1..Len(out)} :
          SelectSeq(out, LAMBDA e : e.timestamp = t)
              = SelectSeq(in, LAMBDA e : e.timestamp = t)

\* C22: whatever the lines of the logs are, no line ends the scan with an
\* exception, a line that is not parseable, has no timestamp or has another
\* role yields no event, every event has the role user or assistant, and
\* the list returned is the list of the events in timestamp order, events
\* of equal timestamp in the order they were found.
C22_CollectIsSortedAndNeverAborts ==
    [][/\ LineRead =>
             /\ col_raised' = None
             /\ \A k \in 1..Len(NewEvents) :
                   NewEvents[k].message_type \in {"user", "assistant"}
             /\ Unusable(col_file'[1].source, LastLine') => NewEvents = <<>>
       /\ (col_pc /= "done" /\ col_pc' = "done") =>
             IsStableSortOf(col_interactions', col_interactions)]_vars

\* The index of the last session_meta record before line k of the file; 0
\* when there is none
LastMetaBefore(lines, k) ==
    LET metas == {j \in 1..(k - 1) : /\ lines[j].json = "object"
                                     /\ lines[j].msg.type = "session_meta"}
    IN  IF metas = {} THEN 0 ELSE CHOOSE j \in metas : \A i \in metas : i <= j

\* C23: when a line of a Codex session file is read, a session_meta line
\* yields no event, a line read when the file has had no session_meta line
\* yet, or when its most recent one has an empty cwd, yields no event, and
\* every event the line yields has as project the cwd of the most recent
\* session_meta line of that file; lines of earlier files play no part.
C23_EventsInheritCwdOfTheirFile ==
    [][(LineRead /\ col_pc = "codex") =>
          LET lines == col_file'[1].lines
              k == Len(lines)
              meta == LastMetaBefore(lines, k)
          IN  /\ (lines[k].json = "object" /\ lines[k].msg.type = "session_meta")
                    => NewEvents = <<>>
              /\ (meta = 0 \/ lines[meta].msg.cwd = <<>>) => NewEvents = <<>>
              /\ \A e \in 1..Len(NewEvents) :
                    NewEvents[e].project = lines[meta].msg.cwd]_vars

\* A message has taken the cwd of the second of two session_meta lines
C23_Witness ==
    /\ col_pc = "codex"
    /\ col_file /= None
    /\ LET lines == col_file[1].lines
       IN  /\ Len(lines) = 3
           /\ \A k \in 1..3 : lines[k].json = "object"
           /\ lines[1].msg.type = "session_meta"
           /\ lines[1].msg.cwd = <<"work", "y">>
           /\ lines[2].msg.type = "session_meta"
           /\ lines[2].msg.cwd = <<"home", "x">>
           /\ lines[3].msg.type = "response_item"
           /\ Len(col_interactions) = 1
           /\ col_interactions[1].project = <<"home", "x">>

-----------------------------------------------------------------------------
(* Properties of the sitting segmentation *)

\* C24: an event that arrives while a sitting is open closes it and starts
\* a new sitting when its gap to the end of the open sitting is >= 1200
\* seconds, and extends the open sitting otherwise, whatever its project.
C24_SittingSplitsAtThreshold ==
    [][(sit_idx >= 1 /\ sit_idx' = sit_idx + 1 /\ sit_current /= None) =>
          LET event == sit_events[sit_idx]
              open == sit_current[1]
          IN  IF event.timestamp - open.end_ts >= 1200
              THEN /\ sit_sittings' = Append(sit_sittings, open)
                   /\ sit_current'[1].start_ts = event.timestamp
                   /\ sit_current'[1].interactions = 1
              ELSE /\ sit_sittings' = sit_sittings
                   /\ sit_current'[1].start_ts = open.start_ts
                   /\ sit_current'[1].end_ts = event.timestamp
                   /\ sit_current'[1].interactions = open.interactions + 1]_vars

\* A sitting of two events of different projects 1199 seconds apart has
\* been closed by an event exactly 1200 seconds after its end
C24_Witness ==
    /\ Len(sit_sittings) = 1
    /\ sit_sittings[1].start_ts = 0
    /\ sit_sittings[1].end_ts = 1199
    /\ Cardinality(sit_sittings[1].projects) = 2
    /\ sit_current /= None
    /\ sit_current[1].start_ts = 1199 + 1200

-----------------------------------------------------------------------------
(* Properties of resolve_cwd_to_repo *)

\* path is the directory dir or lies under it
EqualOrUnder(path, dir) ==
    /\ Len(dir) <= Len(path)
    /\ \A k \in 1..Len(dir) : path[k] = dir[k]

\* C25: a call for a cwd that is an ignored path or lies under one returns
\* None and changes nothing; a call whose remapped cwd is a key of the
\* cache returns the cached value, None included, without a detection and
\* changes nothing; every other call runs one detection and stores what it
\* returns under the remapped cwd, leaving the other keys alone.  No path is
\* given to the detection twice.
C25_CacheFrame ==
    [][rcr_call' /= rcr_call =>
          LET config == rcr_config[1]
              cwd == rcr_call'[1].cwd
              result == rcr_call'[1].result
              remapped == IF cwd \in DOMAIN config.remap
                          THEN config.remap[cwd] ELSE cwd
          IN  /\ IF \E dir \in config.ignore : EqualOrUnder(cwd, dir)
                 THEN /\ result = None
                      /\ rcr_cache' = rcr_cache
                      /\ rcr_detected' = rcr_detected
                 ELSE IF remapped \in DOMAIN rcr_cache
                 THEN /\ result = rcr_cache[remapped]
                      /\ rcr_cache' = rcr_cache
                      /\ rcr_detected' = rcr_detected
                 ELSE /\ rcr_detected' = Append(rcr_detected, remapped)
                      /\ DOMAIN rcr_cache' = DOMAIN rcr_cache \cup {remapped}
                      /\ rcr_cache'[remapped] = result
                      /\ \A k \in DOMAIN rcr_cache : rcr_cache'[k] = rcr_cache[k]
              /\ \A i, j \in 1..Len(rcr_detected') :
                    rcr_detected'[i] = rcr_detected'[j] => i = j]_vars

\* The third call has returned the None cached under its remapped cwd; one
\* detection has run in the three calls
C25_Witness ==
    /\ rcr_call /= None
    /\ rcr_call[1].number = 3
    /\ rcr_call[1].cwd = <<"tmp">>
    /\ rcr_call[1].result = None
    /\ rcr_config[1].ignore = {<<"work">>}
    /\ DOMAIN rcr_config[1].remap = {<<"tmp">>}
    /\ DOMAIN rcr_cache = {<<"work">>}
    /\ rcr_cache[<<"work">>] = None
    /\ rcr_detected = <<(<<"work">>)>>

-----------------------------------------------------------------------------
(* Properties of the list detect_sessions returns *)

\* The events left by the project filter, in input order
FilteredEvents ==
    SelectSeq(interactions,
              LAMBDA i : \/ project_filter = None
                         \/ i.project[Len(i.project)] = project_filter[1])

\* How many elements of seq are e
CountOf(e, seq) == Cardinality({k \in 1..Len(seq) : seq[k] = e})

RECURSIVE TotalInteractions(_)
TotalInteractions(ss) ==
    IF ss = <<>> THEN 0 ELSE Head(ss).interactions + TotalInteractions(Tail(ss))

RECURSIVE TimesFolded(_, _)
TimesFolded(e, ss) ==
    IF ss = <<>> THEN 0
    ELSE CountOf(e, Head(ss).folded) + TimesFolded(e, Tail(ss))

\* C26: when detect_sessions returns, every event the filter left is
\* folded into exactly one session, the interactions of the sessions add
\* up to the number of those events, and all events of a session have the
\* session's full project path.
C26_SessionsPartitionTheEvents ==
    ds_pc = "done" =>
        /\ TotalInteractions(sessions) = Len(FilteredEvents)
        /\ \A e \in {interactions[k] : k \in 1..Len(interactions)} :
              TimesFolded(e, sessions) = CountOf(e, FilteredEvents)
        /\ \A k \in 1..Len(sessions) :
              /\ Len(sessions[k].folded) = sessions[k].interactions
              /\ \A j \in 1..Len(sessions[k].folded) :
                    sessions[k].folded[j].project = sessions[k].project_full

\* A filtered call has returned sessions of two directories of the same
\* name and has left out an event of another project
C26_Witness ==
    /\ ds_pc = "done"
    /\ project_filter = Some("x")
    /\ Len(FilteredEvents) = 2
    /\ Len(interactions) = 3
    /\ Len(sessions) = 2
    /\ sessions[1].project = sessions[2].project
    /\ sessions[1].project_full /= sessions[2].project_full

\* C27: the list detect_sessions returns is in ascending start_ts order,
\* and of two sessions of one full project path the one that comes first
\* ends no later than the other starts, also for an input list that is not
\* in timestamp order.
C27_SortedAndDisjointPerProject ==
    ds_pc = "done" =>
        /\ \A k \in 1..(Len(sessions) - 1) :
              sessions[k].start_ts <= sessions[k + 1].start_ts
        /\ \A i, j \in 1..Len(sessions) :
              (i < j /\ sessions[i].project_full = sessions[j].project_full)
                  => sessions[i].end_ts <= sessions[j].start_ts

\* An input list that is not in timestamp order has given two sessions of
\* one project and a session of another project between their starts
C27_Witness ==
    /\ ds_pc = "done"
    /\ Len(interactions) = 3
    /\ interactions[1].timestamp > interactions[2].timestamp
    /\ Len(sessions) = 3
    /\ sessions[1].project_full = sessions[3].project_full
    /\ sessions[2].project_full /= sessions[1].project_full

-----------------------------------------------------------------------------
(* merge_coverage_windows keeps the covered dates *)

\* The lists that hold the windows of a list in another order
Reorderings(windows) ==
    LET n == Len(windows)
        perms == {f \in [1..n -> 1..n] : \A i, j \in 1..n : f[i] = f[j] => i = j}
    IN  {[k \in 1..n |-> windows[f[k]]] : f \in perms}

\* C28: merge_coverage_windows preserves the covered date set: a date is
\* covered by the merged list if and only if it is covered by the list
\* given; the result is the same for every order of the list given, and
\* merging the merged list returns it unchanged.
C28_MergeKeepsCoveredDates ==
    cov_op = "merge" =>
        /\ \A d \in Dates :
              IsDateCovered(d, cov_result) <=> IsDateCovered(d, windows1)
        /\ DaysOf(cov_result) = DaysOf(windows1)
        /\ \A w \in Reorderings(windows1) :
              MergeCoverageWindows(w) = cov_result
        /\ MergeCoverageWindows(cov_result) = cov_result

\* C28 witness: three windows given latest first, two of them one day
\* apart, have been merged into two windows, and a date between them is
\* covered neither before nor after the merge.
C28_Witness ==
    /\ cov_op = "merge"
    /\ Len(windows1) = 3
    /\ Ordinal(windows1[1][1]) > Ordinal(windows1[2][1])
    /\ Ordinal(windows1[2][1]) = Ordinal(windows1[3][2]) + 1
    /\ Len(cov_result) = 2
    /\ cov_result # windows1
    /\ \E d \in Dates :
          /\ Ordinal(cov_result[1][2]) < Ordinal(d)
          /\ Ordinal(d) < Ordinal(cov_result[2][1])
          /\ ~IsDateCovered(d, windows1)
          /\ ~IsDateCovered(d, cov_result)

-----------------------------------------------------------------------------
(* The two aggregators on the same input *)

\* The rows of a list that have a configuration
RowsOf(rows, config) == {k \in 1..Len(rows) : rows[k].configuration = config}

\* A field of the rows, summed over the rows of a configuration
RowTotal(rows, config, f) ==
    SumAt([k \in 1..Len(rows) |-> rows[k][f]], RowsOf(rows, config))

\* The sessions counted by all rows of aggregate_by_date_and_configuration
RowSessions(rows) ==
    SumAt([k \in 1..Len(rows) |-> rows[k].sessions], 1..Len(rows))

\* The sessions counted under all keys of aggregate_by_configuration
KeySessions(by_config) ==
    LET keys == <<"none", "beads", "beads+beadhub">>
    IN  SumAt([i \in 1..3 |-> by_config[keys[i]].sessions], 1..3)

\* For each of the three configurations, the rows of that configuration
\* add up to the configuration's totals.
RowsAddUpToTotals(rows, by_config) ==
    \A config \in {"none", "beads", "beads+beadhub"} :
        /\ RowTotal(rows, config, "sessions") = by_config[config].sessions
        /\ RowTotal(rows, config, "hours") = by_config[config].hours
        /\ RowTotal(rows, config, "commits") = by_config[config].commits
        /\ RowTotal(rows, config, "delta") = by_config[config].delta

\* The result of the other aggregator on the input of the call made
OtherRows == AggregateByDateAndConfiguration(agg_session_metrics)

OtherByConfig == AggregateByConfiguration(agg_session_metrics)

\* The input sessions whose configuration is one of the three keys
KnownSessions ==
    {k \in 1..Len(agg_session_metrics) :
        agg_session_metrics[k].configuration
            \in {"none", "beads", "beads+beadhub"}}

-----------------------------------------------------------------------------
(* The classifier over all its inputs and over later check dates *)

\* The place of a result in the order none < beads < beads+beadhub; an
\* exception has no place
Bucket(result) ==
    CASE result = "none" -> 1
      [] result = "beads" -> 2
      [] result = "beads+beadhub" -> 3
      [] OTHER -> 0

\* What the call made gives for another check date, the other arguments
\* being the same
ResultOn(check_date) ==
    GetConfiguration(cfg_beads_date, cfg_beadhub, check_date)

\* C30: the classifier is total and monotone in the check date: for every
\* beads_date and beadhub input it returns one of "none", "beads" and
\* "beads+beadhub" without raising, and on a later check date the bucket is
\* never lower in the order none < beads < beads+beadhub.
C30_TotalAndMonotone ==
    cfg_op \in {"get_configuration", "classify_session"} =>
        /\ cfg_result[1] \in {"none", "beads", "beads+beadhub"}
        /\ \A d2 \in Dates :
              StrLe(cfg_check_date, d2) =>
                 /\ ResultOn(d2) \in {"none", "beads", "beads+beadhub"}
                 /\ Bucket(ResultOn(d2)) >= Bucket(cfg_result[1])

\* The same statement for the calls whose second argument is a date string
\* or None, as get_configuration's signature has it
TotalAndMonotoneOnDates ==
    cfg_op = "get_configuration" =>
        /\ cfg_result[1] \in {"none", "beads", "beads+beadhub"}
        /\ \A d2 \in Dates :
              StrLe(cfg_check_date, d2) =>
                 /\ ResultOn(d2) \in {"none", "beads", "beads+beadhub"}
                 /\ Bucket(ResultOn(d2)) >= Bucket(cfg_result[1])

====
